---- MODULE Spec2Model ----
(***************************************************************************)
(* Verification model of the PDF ingestion pipeline of shiftAIOT           *)
(* (src/project): the upload endpoint with the vector database behind it,  *)
(* the extraction waterfall of PDFProcessor, and MarkdownChunker; and of   *)
(* the in-process retrieval mode (src/pdf_rag_system).                     *)
(*                                                                         *)
(* The specifications of the module:                                      *)
(*   Spec         upload_pdf requests against the collection store         *)
(*   SpecRead     the same with query, rules and safety requests reading   *)
(*   SpecLoop     the same on the event loop, the extraction with steps of  *)
(*                its own                                                  *)
(*   SpecExtract  process_pdf / process_pdf_with_mineru /                  *)
(*                download_models_with_retry, one statement group a step   *)
(*   SpecChunk    chunk_markdown_with_headings, one input line a step      *)
(*   SpecSearch   VectorService of src/pdf_rag_system: store, delete,      *)
(*                clear and search over the in-memory TF-IDF index         *)
(*   SpecRag      RAGService.generate_answer, one helper call a step       *)
(*   SpecLlm      LLMService.generate_rules, generate_maintenance_schedule *)
(*                and generate_safety_information with their parsers       *)
(*   SpecNames    sanitize_filename as upload_pdf and query_pdf call it    *)
(* Variables a specification does not use keep their initial value.        *)
(***************************************************************************)
EXTENDS Integers, Sequences, FiniteSets, TLC

VARIABLES
    \* ---- upload endpoint and vector database (Spec)
    pc,           \* per request slot: "idle", or "reading" (suspended in await file.read());
                  \* under SpecLoop also "backoff" and "subprocess" (inside process_pdf)
    req,          \* per request slot: file.filename of the request in flight
    linked,       \* per request slot: the file its open handle writes to is still the one at upload_path
    files,        \* the upload directory: path -> content kind of the file there
    collections,  \* the ChromaDB client's collections: name -> sequence of stored records
    last,         \* what the handler step just taken did, and the response it gave (if any)
    writes,       \* per collection name: len(chunks) of the store_chunks call made on it
    seen,         \* what the read request just served found in the collection it asked for
    extracted,    \* the content of the file the handler step just taken gave to process_pdf
    \* ---- MarkdownChunker.chunk_markdown_with_headings (SpecChunk)
    lines,        \* f.readlines(): the lines of the markdown file
    cpc,          \* "off", "start", "loop" (in the for loop), "done" (returned)
    line_no,      \* how many lines the for loop has consumed
    has_headings, \* the local of that name
    chunker,      \* the locals heading, content_lines, images, tables, chunks
    \* ---- PDFProcessor (SpecExtract)
    epc,          \* where the call is: "off", "idle", "download", "config", "mkdir",
                  \* "commands", "finally_return", "finally_raise", "glob", "done"
    caller,       \* the method called: "process_pdf" or "download_models_with_retry"
    retries,      \* download_models_with_retry: the parameter
    attempt,      \* download_models_with_retry: the loop variable
    dl_log,       \* the outcome of each snapshot_download call made, in order
    delays,       \* the seconds of each time.sleep of the retry loop, in order
    config_exists,   \* mineru-config.json is on disk
    config_written,  \* setup_mineru_config has returned in this call: the file is written
    cmd_no,       \* how many of possible_commands have been tried and have failed
    success,      \* process_pdf_with_mineru: the local of that name
    fallback,     \* process_pdf_with_pymupdf: "untried", "ok" or "failed"
    mineru,       \* process_pdf_with_mineru: "none", "running", "returned" or "raised"
    output,       \* the markdown files under the output directory
    result,       \* what the called method gave its caller
    \* ---- VectorService of pdf_rag_system (SpecSearch)
    documents,    \* self.documents: document id -> [text, device_id]
    document_ids, \* self.document_ids: the ids in insertion order
    vectors,      \* self.vectors: None, or the texts the rows of the matrix were computed from
    fitted,       \* self.vectorizer has been fitted (it holds a vocabulary)
    next_id,      \* how many ids uuid4 has handed out; the next document gets next_id + 1
    found,        \* the search_documents call just made: its arguments and its result
    row_ids,      \* the document ids the rows of self.vectors were computed from, row by row
    index_call,   \* the VectorService call just made: whether the index failed in it, and
                  \* what the caller got
    \* ---- RAGService.generate_answer of pdf_rag_system (SpecRag)
    rpc,          \* "off", "idle", "context", "answer", "confidence", "done"
    rag_query,    \* query: the words of the query
    context_docs, \* context_docs: the retrieved documents, in retrieval order
    context_text, \* the local of that name
    handler,      \* the method _generate_contextual_answer dispatched to
    confidence,   \* the confidence returned, a fraction num/den in hundredths
    \* ---- LLMService.generate_* (SpecLlm)
    lpc,          \* "off", "idle", "awaiting" (in await ...create()), "responded", "done"
    llm_op,       \* the method called: "rules", "maintenance" or "safety"
    content,      \* response.choices[0].message.content: its JSON shape and its lines
    llm_result,   \* what the method gave its caller
    \* ---- sanitize_filename and its callers (SpecNames)
    given_name,   \* file.filename of an upload, pdf_name of a query: the same name
    resolved      \* per caller: the collection name sanitize_filename gave it, or None

uploadVars == <<pc, req, linked, files, collections, last, writes, seen, extracted>>
chunkVars == <<lines, cpc, line_no, has_headings, chunker>>
extractVars == <<epc, caller, retries, attempt, dl_log, delays, config_exists,
                 config_written, cmd_no, success, fallback, mineru, output, result>>
searchVars == <<documents, document_ids, vectors, fitted, next_id, found, row_ids,
               index_call>>
ragVars == <<rpc, rag_query, context_docs, context_text, handler, confidence>>
llmVars == <<lpc, llm_op, content, llm_result>>
nameVars == <<given_name, resolved>>
vars == <<uploadVars, chunkVars, extractVars, searchVars, ragVars, llmVars, nameVars>>

\* what the actions of one specification leave alone
notUpload == <<chunkVars, extractVars, searchVars, ragVars, llmVars, nameVars>>
notChunk == <<uploadVars, extractVars, searchVars, ragVars, llmVars, nameVars>>
notExtract == <<uploadVars, chunkVars, searchVars, ragVars, llmVars, nameVars>>
notSearch == <<uploadVars, chunkVars, extractVars, ragVars, llmVars, nameVars>>
notRag == <<uploadVars, chunkVars, extractVars, searchVars, llmVars, nameVars>>
notLlm == <<uploadVars, chunkVars, extractVars, searchVars, ragVars, nameVars>>

\* what a call has when it starts
NoResult == [status |-> "running", chunks |-> <<>>, error |-> ""]

FreshCall ==
    /\ attempt = 0
    /\ dl_log = <<>>
    /\ delays = <<>>
    /\ config_written = FALSE
    /\ cmd_no = 0
    /\ success = FALSE
    /\ fallback = "untried"
    /\ output = <<>>
    /\ result = NoResult

\* no PDFProcessor call is modelled
ExtractOff ==
    /\ epc = "off"
    /\ caller = "none"
    /\ retries = 0
    /\ mineru = "none"
    /\ config_exists = FALSE
    /\ FreshCall

\* Python's None, where a sequence of strings can stand as well
None == <<"None">>

\* no search_documents call has been made
NoSearch == [called |-> FALSE, device_id |-> "none", limit |-> 0, similarities |-> <<>>,
             raised |-> FALSE, results |-> <<>>]

\* no VectorService method has been called
NoIndexCall == [op |-> "none", document_id |-> 0, backend_failed |-> FALSE,
                outcome |-> "none", value |-> "none"]

\* vector_service.py 12-21: VectorService.__init__
SearchInit ==
    /\ documents = <<>>
    /\ document_ids = <<>>
    /\ vectors = None
    /\ fitted = FALSE
    /\ next_id = 0
    /\ found = NoSearch
    /\ row_ids = <<>>
    /\ index_call = NoIndexCall

\* generate_answer before it has computed anything
NoAnswer ==
    /\ rag_query = {}
    /\ context_docs = <<>>
    /\ context_text = <<>>
    /\ handler = "none"
    /\ confidence = [num |-> 0, den |-> 1]

\* no generate_answer call is modelled
RagOff == rpc = "off" /\ NoAnswer

\* a generate_* call before the model has answered
NoContent == [shape |-> "none", lines |-> <<>>]
NoLlmResult == [outcome |-> "none", error |-> "", items |-> <<>>]

NoLlmCall ==
    /\ llm_op = "none"
    /\ content = NoContent
    /\ llm_result = NoLlmResult

\* no LLMService call is modelled
LlmOff == lpc = "off" /\ NoLlmCall

\* the callers of sanitize_filename: upload.py 62 and query.py 26
Callers == {"upload_pdf", "query_pdf"}

\* sanitize_filename has not been called
NamesOff == given_name = <<>> /\ resolved = [c \in Callers |-> None]

\* the chunker is not running
ChunkerOff ==
    /\ lines = <<>>
    /\ cpc = "off"
    /\ line_no = 0
    /\ has_headings = FALSE
    /\ chunker = <<>>

----------------------------------------------------------------------------
(* Bounds of the model *)

MaxChunks == 2        \* process_pdf returns at most this many chunks
MaxLines == 3         \* a markdown file has at most this many lines
MaxRetries == 4       \* download_models_with_retry is called with 0..MaxRetries retries
MaxPages == 2         \* a PDF has at most this many pages

Requests == {"r1", "r2"}   \* request slots: requests that can be in flight together

----------------------------------------------------------------------------
(* utils/helpers.py: sanitize_filename and validate_pdf_file *)

\* A filename is a sequence of characters ending in its extension, kept as one
\* token: <<"a", ".pdf">> is "a.pdf".
Extensions == {".pdf", ".txt"}

FileNames ==
    { <<>>, <<"a", ".pdf">>, <<"A", ".pdf">>, <<"a", ".txt">> }

\* str.lower() on the model's alphabet
Lower(c) == CASE c = "A" -> "a" [] c = "B" -> "b" [] OTHER -> c

\* the characters the class [\w\-_] matches
WordChars == {"a", "b", "A", "B", "0", "1", "_", "-"}

\* Path(filename).stem: the name without its last suffix
Stem(filename) ==
    IF Len(filename) > 0 /\ filename[Len(filename)] \in Extensions
    THEN SubSeq(filename, 1, Len(filename) - 1)
    ELSE filename

\* (mutant) re.sub(r'[^\w\-_]+', '_', s): a run of characters outside the class
\* becomes one '_'
RECURSIVE SubNonWord_runs(_)
SubNonWord_runs(s) ==
    IF s = <<>> THEN <<>>
    ELSE IF Head(s) \in WordChars THEN <<Head(s)>> \o SubNonWord_runs(Tail(s))
    ELSE IF Tail(s) # <<>> /\ Head(Tail(s)) \notin WordChars THEN SubNonWord_runs(Tail(s))
    ELSE <<"_">> \o SubNonWord_runs(Tail(s))

\* re.sub(r'[^\w\-_]', '_', s): every single character outside the class becomes '_'
SubNonWord(s) == [i \in 1..Len(s) |-> IF s[i] \in WordChars THEN s[i] ELSE "_"]

sanitize_filename(filename) ==
    <<"pdf_">> \o SubNonWord([i \in 1..Len(Stem(filename)) |-> Lower(Stem(filename)[i])])

\* upload.py 33-34: the path the upload is saved at
upload_path(filename) == sanitize_filename(filename) \o <<".pdf">>

\* What the file at a path holds, as far as validate_pdf_file can tell.
\*   "empty"       zero bytes (opened for writing, nothing written yet)
\*   "nosig"       does not begin with %PDF
\*   "unopenable"  begins with %PDF, PyMuPDF cannot open it
\*   "zeropages"   begins with %PDF, opens, has no page
\*   "valid"       begins with %PDF, opens, has a page
Contents == {"empty", "nosig", "unopenable", "zeropages", "valid"}

\* the payloads a client sends
Kinds == Contents \ {"empty"}

HasSignature(kind) == kind \in {"unopenable", "zeropages", "valid"}
Opens(kind) == kind \in {"zeropages", "valid"}
PageCount(kind) == IF kind = "valid" THEN 1 ELSE 0

validate_pdf_file(fs, path) ==
    IF path \notin DOMAIN fs THEN FALSE                 \* not Path.exists()
    ELSE IF fs[path] = "empty" THEN FALSE               \* file_size == 0
    ELSE IF ~HasSignature(fs[path]) THEN FALSE          \* header != b'%PDF'
    ELSE IF Opens(fs[path]) THEN PageCount(fs[path]) > 0
    ELSE TRUE                                           \* fitz failed: still True

----------------------------------------------------------------------------
(* config.py *)

max_file_size == 50 * 1024 * 1024

\* file.size of the requests the model sends; 0 stands for a size that is not
\* reported (None) as well, which line 25 of upload.py treats alike
Sizes == {0, 1, max_file_size, max_file_size + 1}

\* The request headers a client can send; the payload arrives with file.read()
UploadFiles == [filename : FileNames, size : Sizes]

----------------------------------------------------------------------------
(* services/vector_db.py: the collections behind the ChromaDB client *)

\* (mutant) an existence check that never finds the collection
collection_exists_never(colls, name) == FALSE

\* collection_exists: get_collection raises exactly when the name is unknown
collection_exists(colls, name) == name \in DOMAIN colls

get_or_create_collection(colls, name) ==
    IF name \in DOMAIN colls THEN colls ELSE colls @@ (name :> <<>>)

\* vector_db.py 72-92: one record per chunk, ids chunk-0 .. chunk-(n-1)
PrepareRecords(chunks) ==
    [i \in 1..Len(chunks) |-> [id |-> i - 1, document |-> chunks[i]]]

\* collection.add: one batch; a record whose id the collection already holds is skipped
RECURSIVE BatchAdd(_, _)
BatchAdd(stored, recs) ==
    IF recs = <<>> THEN stored
    ELSE LET known == { stored[j].id : j \in 1..Len(stored) }
         IN  BatchAdd(IF Head(recs).id \in known THEN stored ELSE Append(stored, Head(recs)),
                      Tail(recs))

\* Faults the environment can inject into one request.
\*   "io"     reading the upload or writing it to disk raises
\*   "svc"    PDFProcessor() or VectorDatabase() raises
\*   "mkdir"  the output directory cannot be created
\*   "embed"  embedding_model.encode raises
\*   "add"    collection.add raises
Faults == {"none", "io", "svc", "mkdir", "embed", "add"}

\* store_chunks: the collections afterwards, whether it raised, the count returned
store_chunks(colls, chunks, name, fault) ==
    LET created == get_or_create_collection(colls, name)
    IN  IF fault = "embed" /\ Len(chunks) > 0
        THEN [colls |-> created, raised |-> TRUE, n |-> 0]    \* except: log, re-raise
        ELSE IF fault = "add"
        THEN [colls |-> created, raised |-> TRUE, n |-> 0]    \* except: log, re-raise
        ELSE [colls |-> [created EXCEPT ![name] = BatchAdd(@, PrepareRecords(chunks))],
              raised |-> FALSE, n |-> Len(chunks)]

----------------------------------------------------------------------------
(* endpoints/upload.py: upload_pdf *)

\* Path.unlink() of a file that is there
Unlink(fs, path) == [p \in DOMAIN fs \ {path} |-> fs[p]]

\* (mutant) an error path that forgets the uploaded file
CleanupOnError_skipped(fs, path) == fs

\* upload.py 52-53 and 114-115: if upload_path.exists(): upload_path.unlink()
CleanupOnError(fs, path) == IF path \in DOMAIN fs THEN Unlink(fs, path) ELSE fs

\* upload.py 37: open(upload_path, "wb") creates the file or truncates the one there
OpenForWrite(fs, path) ==
    IF path \in DOMAIN fs THEN [fs EXCEPT ![path] = "empty"] ELSE fs @@ (path :> "empty")

\* upload.py 38-39: buffer.write(content) on the handle opened before the await;
\* a handle whose file was unlinked meanwhile writes to no path
WriteContent(fs, path, isLinked, kind) ==
    IF isLinked /\ path \in DOMAIN fs THEN [fs EXCEPT ![path] = kind] ELSE fs

\* upload.py 22: not file.filename or not file.filename.endswith('.pdf')
NotPdfName(filename) == IF filename = <<>> THEN TRUE ELSE filename[Len(filename)] # ".pdf"

\* upload.py 25: file.size and file.size > settings.max_file_size
TooLarge(size) == size # 0 /\ size > max_file_size

\* What process_pdf gives upload_pdf: it raises, or returns 0..MaxChunks chunks
ProcessOutcomes ==
    {[raised |-> TRUE, n |-> 0]} \cup {[raised |-> FALSE, n |-> k] : k \in 0..MaxChunks}

\* the chunks of a document, told apart by the file they were extracted from
ChunksOf(filename, n) == [i \in 1..n |-> [source |-> filename, index |-> i - 1]]

NoFile == <<>>

Response(op, filename, status, message, cause, n, wrote, validated, processed, stored, store_raised) ==
    [op |-> op, filename |-> filename, status |-> status, message |-> message,
     cause |-> cause, chunks_processed |-> n, wrote |-> wrote, validated |-> validated,
     process_called |-> processed, store_called |-> stored, store_raised |-> store_raised]

\* upload.py 110-117: the outer except of the processing block
ProcessingFailed(fs, colls, filename, cause, processed, stored, store_raised) ==
    [files |-> CleanupOnError(fs, upload_path(filename)), colls |-> colls,
     resp |-> Response("resume", filename, 500, "PDF processing failed", cause, -1,
                       TRUE, TRUE, processed, stored, store_raised)]

\* upload.py 50-54: the except of the saving block
SavingFailed(op, fs, colls, filename, cause, wrote) ==
    [files |-> CleanupOnError(fs, upload_path(filename)), colls |-> colls,
     resp |-> Response(op, filename, 500, "Failed to save uploaded file", cause, -1,
                       wrote, FALSE, FALSE, FALSE, FALSE)]

\* (mutant) an existing collection is overwritten with the chunks of the new upload
AlreadyProcessed_overwrites(fs, colls, filename) ==
    [files |-> fs,
     colls |-> [colls EXCEPT ![sanitize_filename(filename)] =
                    PrepareRecords(ChunksOf(filename, 1))],
     resp |-> Response("resume", filename, 200, "PDF processed and stored successfully", "", 1,
                       TRUE, TRUE, TRUE, TRUE, FALSE)]

\* upload.py 64-75: the collection is there already; the handler returns at once
AlreadyProcessed(fs, colls, filename) ==
    [files |-> fs, colls |-> colls,
     resp |-> Response("resume", filename, 200, "PDF already processed", "", 0,
                       TRUE, TRUE, FALSE, FALSE, FALSE)]

\* upload.py 56-108: from the services' construction to the success response
ProcessAndStore(fs, colls, filename, fault, proc) ==
    LET path == upload_path(filename)
        collection_name == sanitize_filename(filename)
        chunks == ChunksOf(filename, proc.n)
        store == store_chunks(colls, chunks, collection_name, fault)
    IN  IF fault = "svc"
        THEN ProcessingFailed(fs, colls, filename, "service construction", FALSE, FALSE, FALSE)
        ELSE IF collection_exists(colls, collection_name)
        THEN AlreadyProcessed(fs, colls, filename)
        ELSE IF fault = "mkdir"
        THEN ProcessingFailed(fs, colls, filename, "output directory", FALSE, FALSE, FALSE)
        ELSE IF proc.raised
        THEN ProcessingFailed(fs, colls, filename, "extraction", TRUE, FALSE, FALSE)
        ELSE IF chunks = <<>>
        THEN ProcessingFailed(fs, colls, filename, "No content could be extracted from PDF",
                              TRUE, FALSE, FALSE)
        ELSE IF store.raised
        THEN ProcessingFailed(fs, store.colls, filename, "store_chunks", TRUE, TRUE, TRUE)
        ELSE IF path \notin DOMAIN fs       \* upload.py 95: unlink() of a missing file raises
        THEN ProcessingFailed(fs, store.colls, filename, "unlink", TRUE, TRUE, FALSE)
        ELSE [files |-> Unlink(fs, path), colls |-> store.colls,
              resp |-> Response("resume", filename, 200,
                                "PDF processed and stored successfully", "", store.n,
                                TRUE, TRUE, TRUE, TRUE, FALSE)]

\* upload.py 38-117: the handler from the point file.read() returns
upload_pdf_resume(fs, colls, isLinked, filename, kind, fault, proc) ==
    LET path == upload_path(filename)
        written == WriteContent(fs, path, isLinked, kind)
    IN  IF fault = "io"
        THEN SavingFailed("resume", fs, colls, filename, "read or write", TRUE)
        ELSE IF ~validate_pdf_file(written, path)
        \* 45-46: unlink (which raises if the file is gone), HTTPException(400); both
        \* are caught by the except of line 50
        THEN SavingFailed("resume", IF path \in DOMAIN written THEN Unlink(written, path)
                                    ELSE written,
                          colls, filename, "Invalid PDF file", TRUE)
        ELSE ProcessAndStore(written, colls, filename, fault, proc)

\* upload.py 83: what process_pdf(str(upload_path), ...) finds at upload_path
GivenToProcess(fs, isLinked, filename, kind) ==
    WriteContent(fs, upload_path(filename), isLinked, kind)[upload_path(filename)]

\* the handles that lose their file when `path` leaves the directory
StillLinked(r, fs2) ==
    [q \in Requests |->
        IF q = r THEN FALSE
        ELSE linked[q] /\ upload_path(req[q]) \in DOMAIN fs2]

\* vector_db.py 63: "Storing {len(chunks)} chunks in collection: {collection_name}"
LoggedStore(log, name, n) == [c \in DOMAIN log \cup {name} |-> IF c = name THEN n ELSE log[c]]

\* no read request has been served
NotRead == [op |-> "none", collection |-> <<>>, exists |-> FALSE, held |-> 0,
            returned |-> 0, status |-> 0]

Idle == Response("init", <<>>, 0, "", "", -1, FALSE, FALSE, FALSE, FALSE, FALSE)

UploadInit ==
    /\ pc = [r \in Requests |-> "idle"]
    /\ req = [r \in Requests |-> NoFile]
    /\ linked = [r \in Requests |-> FALSE]
    /\ files = <<>>
    /\ collections = <<>>
    /\ last = Idle
    /\ writes = <<>>
    /\ seen = NotRead
    /\ extracted = "none"

\* upload.py 21-26: the request is rejected before anything is saved
RejectUpload(r, f) ==
    /\ pc[r] = "idle"
    /\ NotPdfName(f.filename) \/ TooLarge(f.size)
    /\ last' = Response("begin", f.filename, 400,
                        IF NotPdfName(f.filename) THEN "Only PDF files are allowed"
                        ELSE "File too large", "", -1,
                        FALSE, FALSE, FALSE, FALSE, FALSE)
    /\ extracted' = "none"
    /\ UNCHANGED <<pc, req, linked, files, collections, writes, seen, notUpload>>

\* upload.py 36-37, 50-54: open(upload_path, "wb") raises
SaveFails(r, f) ==
    /\ pc[r] = "idle"
    /\ ~NotPdfName(f.filename) /\ ~TooLarge(f.size)
    /\ LET out == SavingFailed("begin", files, collections, f.filename, "open", FALSE)
       IN  /\ files' = out.files
           /\ last' = out.resp
           /\ linked' = [StillLinked(r, out.files) EXCEPT ![r] = linked[r]]
    /\ extracted' = "none"
    /\ UNCHANGED <<pc, req, collections, writes, seen, notUpload>>

\* upload.py 19-38: validate the request, open the file, suspend in await file.read()
BeginUpload(r, f) ==
    /\ pc[r] = "idle"
    /\ ~NotPdfName(f.filename) /\ ~TooLarge(f.size)
    /\ files' = OpenForWrite(files, upload_path(f.filename))
    /\ pc' = [pc EXCEPT ![r] = "reading"]
    /\ req' = [req EXCEPT ![r] = f.filename]
    /\ linked' = [linked EXCEPT ![r] = TRUE]
    /\ last' = Response("begin", f.filename, 0, "", "", -1, TRUE, FALSE, FALSE, FALSE, FALSE)
    /\ extracted' = "none"
    /\ UNCHANGED <<collections, writes, seen, notUpload>>

\* upload.py 38-117: file.read() returned; the handler runs to its response
ResumeUpload(r, kind, fault, proc) ==
    /\ pc[r] = "reading"
    /\ LET out == upload_pdf_resume(files, collections, linked[r], req[r], kind, fault, proc)
       IN  /\ files' = out.files
           /\ collections' = out.colls
           /\ last' = out.resp
           /\ linked' = StillLinked(r, out.files)
           /\ writes' = IF out.resp.store_called
                         THEN LoggedStore(writes, sanitize_filename(req[r]), proc.n)
                         ELSE writes
           /\ extracted' = IF out.resp.process_called
                            THEN GivenToProcess(files, linked[r], req[r], kind)
                            ELSE "none"
    /\ pc' = [pc EXCEPT ![r] = "idle"]
    /\ req' = [req EXCEPT ![r] = NoFile]
    /\ UNCHANGED <<seen, notUpload>>

----------------------------------------------------------------------------
(* endpoints/query.py, rules.py, safety.py: the requests that read a collection *)

\* models/schemas.py: QueryRequest.top_k
default_top_k == 5

\* config.py
max_chunks_per_batch == 25

\* the pdf_name a read request asks for, and the top_k of a query
ReadNames == { <<"a", ".pdf">>, <<"b", ".pdf">> }
TopKs == {1, default_top_k}

Min(a, b) == IF a <= b THEN a ELSE b

\* vector_db.py 115-150: collection.query gives at most n_results records
query_chunks(colls, name, top_k) == SubSeq(colls[name], 1, Min(top_k, Len(colls[name])))

\* vector_db.py 200-229: collection.get gives at most `limit` records
get_all_chunks(colls, name, limit) == SubSeq(colls[name], 1, Min(limit, Len(colls[name])))

\* lines 26-47 of the three handlers: 404 without the collection, 404 without a
\* chunk, otherwise the chunks go on to the LLM
ReadOutcome(op, colls, name, chunks) ==
    IF ~collection_exists(colls, name)
    THEN [op |-> op, collection |-> name, exists |-> FALSE, held |-> 0,
          returned |-> 0, status |-> 404]
    ELSE [op |-> op, collection |-> name, exists |-> TRUE, held |-> Len(colls[name]),
          returned |-> Len(chunks), status |-> IF chunks = <<>> THEN 404 ELSE 200]

\* query.py 20-47: query_pdf up to the chunks it hands to the LLM
QueryPdf(pdf_name, top_k) ==
    /\ LET name == sanitize_filename(pdf_name)
       IN  seen' = ReadOutcome("query", collections, name,
                               IF collection_exists(collections, name)
                               THEN query_chunks(collections, name, top_k) ELSE <<>>)
    /\ UNCHANGED <<pc, req, linked, files, collections, last, writes, extracted, notUpload>>

\* rules.py 20-46 and safety.py 20-46: generate_rules, generate_safety_information
GetAllChunks(op, pdf_name) ==
    /\ LET name == sanitize_filename(pdf_name)
       IN  seen' = ReadOutcome(op, collections, name,
                               IF collection_exists(collections, name)
                               THEN get_all_chunks(collections, name, max_chunks_per_batch)
                               ELSE <<>>)
    /\ UNCHANGED <<pc, req, linked, files, collections, last, writes, extracted, notUpload>>

Next ==
    \/ \E r \in Requests, f \in UploadFiles : RejectUpload(r, f)
    \/ \E r \in Requests, f \in UploadFiles : SaveFails(r, f)
    \/ \E r \in Requests, f \in UploadFiles : BeginUpload(r, f)
    \/ \E r \in Requests, kind \in Kinds, fault \in Faults, proc \in ProcessOutcomes :
            ResumeUpload(r, kind, fault, proc)

Init == UploadInit /\ ChunkerOff /\ ExtractOff /\ SearchInit /\ RagOff /\ LlmOff /\ NamesOff

Spec == Init /\ [][Next]_vars

\* upload requests together with the requests that read the collections
NextRead ==
    \/ \E r \in Requests, f \in UploadFiles : RejectUpload(r, f)
    \/ \E r \in Requests, f \in UploadFiles : SaveFails(r, f)
    \/ \E r \in Requests, f \in UploadFiles : BeginUpload(r, f)
    \/ \E r \in Requests, kind \in Kinds, fault \in Faults, proc \in ProcessOutcomes :
            ResumeUpload(r, kind, fault, proc)
    \/ \E pdf_name \in ReadNames, top_k \in TopKs : QueryPdf(pdf_name, top_k)
    \/ \E op \in {"rules", "safety"}, pdf_name \in ReadNames : GetAllChunks(op, pdf_name)

SpecRead == Init /\ [][NextRead]_vars

----------------------------------------------------------------------------
(* The event loop of main.py: upload_pdf with the extraction as steps of its own *)

\* The calls inside process_pdf that keep the thread of the event loop until they
\* are over: time.sleep(2 ** attempt) of download_models_with_retry
\* (pdf_processor.py 40), and the read loop over process.stdout with
\* process.wait() of process_pdf_with_mineru (117-136). None of the awaits
\* between upload.py 83 and them suspends.
Blocking == {"backoff", "subprocess"}

\* main.py 103: one process with one event loop; a handler takes a step only
\* while no task is inside a blocking call
LoopFree == \A q \in Requests : pc[q] \notin Blocking

\* the requests that arrive: the size limit is left to Spec
LoopFiles == { f \in UploadFiles : f.size = 1 }

\* the faults that can still happen once process_pdf was entered
StoreFaults == {"none", "embed", "add"}

\* upload.py 21-38 on the event loop: a request arrives and runs to its first suspension
LoopBegin(r, f) ==
    /\ LoopFree
    /\ RejectUpload(r, f) \/ SaveFails(r, f) \/ BeginUpload(r, f)

\* process_pdf is not called
NotProcessed == [raised |-> FALSE, n |-> 0]

\* upload.py 38-117 for a request that does not get to process_pdf
LoopResume(r, kind, fault) ==
    /\ LoopFree
    /\ pc[r] = "reading"
    /\ ~upload_pdf_resume(files, collections, linked[r], req[r], kind, fault,
                          NotProcessed).resp.process_called
    /\ ResumeUpload(r, kind, fault, NotProcessed)

\* upload.py 38-83, pdf_processor.py 209-217, 73-79: file.read() returned, the
\* file is saved and validated, and process_pdf is entered; it starts with the
\* model download when the models are missing, otherwise with the subprocess
EnterExtraction(r, kind, models_missing) ==
    /\ LoopFree
    /\ pc[r] = "reading"
    /\ upload_pdf_resume(files, collections, linked[r], req[r], kind, "none",
                         [raised |-> FALSE, n |-> 1]).resp.process_called
    /\ files' = WriteContent(files, upload_path(req[r]), linked[r], kind)
    /\ pc' = [pc EXCEPT ![r] = IF models_missing THEN "backoff" ELSE "subprocess"]
    /\ linked' = StillLinked(r, files')
    /\ extracted' = GivenToProcess(files, linked[r], req[r], kind)
    /\ last' = Response("extract", req[r], 0, "", "", -1, TRUE, TRUE, TRUE, FALSE, FALSE)
    /\ UNCHANGED <<req, collections, writes, seen, notUpload>>

\* pdf_processor.py 25-40, 81-117: a download attempt succeeded after the
\* backoff; the config is written and the subprocess is started
BackoffEnds(r) ==
    /\ pc[r] = "backoff"
    /\ pc' = [pc EXCEPT ![r] = "subprocess"]
    /\ last' = Response("download", req[r], 0, "", "", -1, TRUE, TRUE, TRUE, FALSE, FALSE)
    /\ UNCHANGED <<req, linked, files, collections, writes, seen, extracted, notUpload>>

\* pdf_processor.py 37-39, 136-247 and upload.py 83-117: process_pdf returns
\* or raises (from the backoff: the last download attempt failed), and the
\* handler runs to its response
LeaveExtraction(r, fault, proc) ==
    /\ pc[r] \in Blocking
    /\ pc[r] = "backoff" => proc.raised
    /\ LET out == ProcessAndStore(files, collections, req[r], fault, proc)
       IN  /\ files' = out.files
           /\ collections' = out.colls
           /\ last' = out.resp
           /\ linked' = StillLinked(r, out.files)
           /\ writes' = IF out.resp.store_called
                         THEN LoggedStore(writes, sanitize_filename(req[r]), proc.n)
                         ELSE writes
    /\ pc' = [pc EXCEPT ![r] = "idle"]
    /\ req' = [req EXCEPT ![r] = NoFile]
    /\ UNCHANGED <<seen, extracted, notUpload>>

\* query.py, rules.py, safety.py on the event loop
LoopRead ==
    /\ LoopFree
    /\ \/ \E pdf_name \in ReadNames, top_k \in TopKs : QueryPdf(pdf_name, top_k)
       \/ \E op \in {"rules", "safety"}, pdf_name \in ReadNames : GetAllChunks(op, pdf_name)

\* the steps the event loop can give to a request other than r
StepOfAnother(r) ==
    \/ \E q \in Requests \ {r}, f \in LoopFiles : LoopBegin(q, f)
    \/ \E q \in Requests \ {r}, kind \in Kinds, fault \in Faults : LoopResume(q, kind, fault)
    \/ \E q \in Requests \ {r}, kind \in Kinds, models_missing \in BOOLEAN :
            EnterExtraction(q, kind, models_missing)
    \/ LoopRead

NextLoop ==
    \/ \E r \in Requests, f \in LoopFiles : LoopBegin(r, f)
    \/ \E r \in Requests, kind \in Kinds, fault \in Faults : LoopResume(r, kind, fault)
    \/ \E r \in Requests, kind \in Kinds, models_missing \in BOOLEAN :
            EnterExtraction(r, kind, models_missing)
    \/ \E r \in Requests : BackoffEnds(r)
    \/ \E r \in Requests, fault \in StoreFaults, proc \in ProcessOutcomes :
            LeaveExtraction(r, fault, proc)
    \/ LoopRead

SpecLoop == Init /\ [][NextLoop]_vars

----------------------------------------------------------------------------
(* Claims about upload_pdf and the collection store, checked under Spec *)

\* an upload of `filename` has stored its chunks in its collection
HoldsChunksOf(colls, filename) ==
    /\ sanitize_filename(filename) \in DOMAIN colls
    /\ Len(colls[sanitize_filename(filename)]) > 0
    /\ \A i \in 1..Len(colls[sanitize_filename(filename)]) :
          colls[sanitize_filename(filename)][i].document.source = filename

\* C1: Idempotent re-upload. Once an upload of filename F has stored its chunks
\* in the collection sanitize_filename(F), every later upload of F that runs to
\* its response does not call store_chunks, leaves every collection's records
\* unchanged, never reports a positive chunks_processed, and, when the payload
\* validates and the services are constructed, answers 'PDF already processed'
\* with chunks_processed = 0.
C1_IdempotentReupload ==
    [][\A r \in Requests :
          (pc[r] = "reading" /\ pc'[r] = "idle" /\ HoldsChunksOf(collections, req[r])) =>
              /\ collections' = collections
              /\ ~last'.store_called
              /\ ~last'.process_called
              /\ last'.chunks_processed <= 0
              /\ (last'.status = 200) => (last'.chunks_processed = 0)
              /\ (last'.validated /\ last'.cause # "service construction") =>
                    /\ last'.status = 200
                    /\ last'.message = "PDF already processed"
                    /\ last'.chunks_processed = 0]_vars

\* a second upload of a stored file has just been answered
C1_Witness ==
    /\ last.op = "resume"
    /\ last.message = "PDF already processed"
    /\ last.chunks_processed = 0
    /\ HoldsChunksOf(collections, last.filename)
    /\ Len(collections[sanitize_filename(last.filename)]) = MaxChunks

\* C2: No half-populated collection is marked as existing. When store_chunks
\* has raised after get_or_create_collection (an embedding call or the batch
\* add failed), collection_exists(collection_name) is false afterwards.
C2_NoHalfPopulatedCollection ==
    last.store_raised => ~collection_exists(collections, sanitize_filename(last.filename))

\* C3: An upload_pdf request that fails after the uploaded file was written to
\* upload_path leaves no file at upload_path when it returns its error.
C3_FailedUploadLeavesNoFile ==
    (last.wrote /\ last.status >= 400) => upload_path(last.filename) \notin DOMAIN files

\* store_chunks has just raised in a request whose file was saved and validated
C3_Witness ==
    /\ last.wrote
    /\ last.status = 500
    /\ last.store_raised
    /\ upload_path(last.filename) \notin DOMAIN files


\* C11: No read of an incomplete collection. No query, rules or safety request
\* finds a collection existing (collection_exists true, query_chunks or
\* get_all_chunks answering) while the collection holds fewer records than the
\* store_chunks call made on it was given chunks. (store_chunks has no
\* suspension point, so no second write on a collection starts while one runs.)
C11_NoReadOfIncompleteCollection ==
    (seen.op # "none" /\ seen.exists /\ seen.collection \in DOMAIN writes) =>
        seen.held >= writes[seen.collection]


\* C20: Validation precondition. upload_pdf gives process_pdf only a file
\* that begins with the signature %PDF and reports at least one page when
\* opened; a file with the signature that cannot be opened, or that has no
\* page, is rejected before extraction.
C20_ValidationPrecondition ==
    extracted # "none" =>
        /\ HasSignature(extracted)
        /\ Opens(extracted)
        /\ PageCount(extracted) >= 1


\* the reasons upload_pdf gives for refusing an input (upload.py 23, 26, 46)
ValidationReasons == {"Only PDF files are allowed", "File too large", "Invalid PDF file"}

\* the handler step just taken refused the upload for a validation reason: the
\* checks of lines 21-26 raised, or validate_pdf_file returned False (line 44)
RejectedForValidation ==
    \/ last.op = "begin" /\ ~last.wrote /\ last.cause = ""
    \/ last.cause = "Invalid PDF file"

\* C21: Input validation errors are rejected with their specific reason before
\* any processing. Every upload rejected for a validation reason (filename not
\* ending in .pdf, size above max_file_size, saved file failing
\* validate_pdf_file) is answered with status 400 and that reason as detail,
\* and neither process_pdf nor store_chunks is invoked for it.
C21_ValidationErrorsAre400 ==
    RejectedForValidation =>
        /\ last.status = 400
        /\ last.message \in ValidationReasons
        /\ ~last.process_called
        /\ ~last.store_called

\* the request of the handler step just taken has returned, and it had opened
\* its file at upload_path
ReturnedAfterWrite ==
    last.wrote /\ (last.op = "resume" \/ (last.op = "begin" /\ last.status >= 400))

\* C29: No uploaded file outlives its request. Once a request has returned,
\* whatever its outcome (stored successfully, answered 'PDF already processed'
\* because the collection exists, or failed), the file it wrote at upload_path
\* no longer exists in the upload directory.
C29_NoFileOutlivesRequest ==
    ReturnedAfterWrite => upload_path(last.filename) \notin DOMAIN files

\* another filename with the same collection name has its chunks stored there
Collides(colls, filename) ==
    \E g \in FileNames :
        /\ g # filename
        /\ sanitize_filename(g) = sanitize_filename(filename)
        /\ HoldsChunksOf(colls, g)

\* C30: Collision never overwrites. When two uploads have different filenames
\* that sanitize_filename maps to the same collection name, the second upload
\* leaves every record of the existing collection unchanged: it stores
\* nothing, and when it gets as far as the collection (its payload validates
\* and the services are constructed) it reports chunks_processed = 0 with the
\* message 'PDF already processed'; the collection keeps holding only the
\* first document's chunks.
C30_CollisionNeverOverwrites ==
    [][\A r \in Requests :
          (pc[r] = "reading" /\ pc'[r] = "idle" /\ Collides(collections, req[r])) =>
              /\ collections' = collections
              /\ Collides(collections', req[r])
              /\ ~last'.store_called
              /\ ~last'.process_called
              /\ last'.chunks_processed <= 0
              /\ (last'.validated /\ last'.cause # "service construction") =>
                    /\ last'.status = 200
                    /\ last'.message = "PDF already processed"
                    /\ last'.chunks_processed = 0]_vars

\* an upload of a name that collides with a stored document has just been
\* answered 'PDF already processed'
C30_Witness ==
    /\ last.op = "resume"
    /\ last.message = "PDF already processed"
    /\ last.chunks_processed = 0
    /\ Collides(collections, last.filename)
    /\ ~HoldsChunksOf(collections, last.filename)
    /\ Len(collections[sanitize_filename(last.filename)]) = MaxChunks

\* C24: Extraction does not block other requests. While one upload request is
\* running the external extraction subprocess, or is waiting in a retry
\* backoff delay, any other in-flight request (another upload, a query, a
\* listing) can still take steps; it does not have to wait for the extraction
\* to finish. Checked under SpecLoop.
C24_ExtractionDoesNotBlock ==
    \A r \in Requests : pc[r] \in Blocking => ENABLED StepOfAnother(r)

----------------------------------------------------------------------------
(* utils/helpers.py: sanitize_filename, called by upload_pdf and query_pdf *)

MaxStem == 3          \* the stem of a filename has at most this many characters

\* the characters of a stem: letters of both cases, '-', and the non-word
\* characters ' ' and '!'
StemChars == {"a", "A", "-", " ", "!"}

\* filenames <stem>.pdf with a stem of 1..MaxStem characters
StemNames ==
    UNION { { stem \o <<".pdf">> : stem \in [1..n -> StemChars] } : n \in 1..MaxStem }

\* a request arrives with its filename
NamesInit ==
    /\ given_name \in StemNames
    /\ resolved = [c \in Callers |-> None]

\* upload.py 62 and query.py 26: collection_name = sanitize_filename(name)
ResolveName(handler_name) ==
    /\ resolved[handler_name] = None
    /\ resolved' = [resolved EXCEPT ![handler_name] = sanitize_filename(given_name)]
    /\ UNCHANGED <<given_name, uploadVars, chunkVars, extractVars, searchVars, ragVars, llmVars>>

NextNames == \E handler_name \in Callers : ResolveName(handler_name)

InitNames == UploadInit /\ ChunkerOff /\ ExtractOff /\ SearchInit /\ RagOff /\ LlmOff /\ NamesInit

SpecNames == InitNames /\ [][NextNames]_vars

----------------------------------------------------------------------------
(* Claims about sanitize_filename, checked under SpecNames *)

\* the stem of the name given, in lower case
LowerStem == [i \in 1..Len(Stem(given_name)) |-> Lower(Stem(given_name)[i])]

\* the positions of s at which a maximal run of non-word characters begins
RunStarts(s) ==
    { i \in 1..Len(s) : s[i] \notin WordChars /\ (i = 1 \/ s[i - 1] \in WordChars) }

\* the number of word characters of s
WordCount(s) == Cardinality({ i \in 1..Len(s) : s[i] \in WordChars })

\* C26: Collection naming. sanitize_filename returns the fixed prefix 'pdf_'
\* followed by the case-folded filename stem in which every maximal run of
\* non-word characters is replaced by a single separator; the same filename
\* always yields the same collection name, so upload and query of the same name
\* resolve to the same collection.
C26_CollectionNaming ==
    /\ \A c \in Callers :
          resolved[c] # None =>
              /\ Head(resolved[c]) = "pdf_"
              /\ Len(resolved[c]) = 1 + WordCount(LowerStem) + Cardinality(RunStarts(LowerStem))
              /\ \A i \in 2..Len(resolved[c]) : resolved[c][i] \in WordChars
    /\ (\A c \in Callers : resolved[c] # None) =>
          resolved["upload_pdf"] = resolved["query_pdf"]

\* C26 as the code has it: the prefix 'pdf_' followed by the lower-cased stem
\* in which every single non-word character is replaced by one '_' (a run of
\* k such characters becomes k separators); upload and query of the same name
\* resolve to the same collection.
C26_CollectionNaming_amended ==
    /\ \A c \in Callers :
          resolved[c] # None =>
              /\ Head(resolved[c]) = "pdf_"
              /\ Len(resolved[c]) = 1 + Len(LowerStem)
              /\ \A i \in 1..Len(LowerStem) :
                    resolved[c][i + 1] =
                        IF LowerStem[i] \in WordChars THEN LowerStem[i] ELSE "_"
    /\ (\A c \in Callers : resolved[c] # None) =>
          resolved["upload_pdf"] = resolved["query_pdf"]

\* both callers have resolved a name with a run of two non-word characters
\* and a capital letter
C26_Witness ==
    /\ \A c \in Callers : resolved[c] # None
    /\ Len(LowerStem) = MaxStem
    /\ \E i \in 1..(Len(LowerStem) - 1) :
          LowerStem[i] \notin WordChars /\ LowerStem[i + 1] \notin WordChars
    /\ \E i \in 1..Len(Stem(given_name)) : Stem(given_name)[i] = "A"

----------------------------------------------------------------------------
(* services/chunking.py: MarkdownChunker *)

\* A line is a sequence of tokens, its newline left out: "#", " " (a blank),
\* "x" (a character of text), a whole image reference, an opening or a closing
\* table tag. Text is a sequence of tokens too, with "\n" closing each line.
ImageRefs == {"![a](u)"}
OpenTags == {"<table>", "<TABLE>"}
CloseTags == {"</table>", "</TABLE>"}
Whitespace == {" ", "\n"}

\* the lines the model builds markdown files from
LineSet ==
    { <<>>,                               \* an empty line
      <<" ">>,                            \* a line of blanks
      <<"x">>,                            \* text
      <<"#", " ", "x">>,                  \* "# x"
      <<"#">>,                            \* "#" alone
      <<" ", "#", "x">>,                  \* " #x"
      <<"x", "![a](u)">>,                 \* text with an image reference
      <<"<table>", "x", "</table>">>,     \* a table on one line
      <<"<TABLE>", "x">>,                 \* a table opened ...
      <<"</table>">> }                    \* ... and closed on a later line

\* the markdown files of up to MaxLines lines
RECURSIVE FilesOfLength(_)
FilesOfLength(n) ==
    IF n = 0 THEN { <<>> }
    ELSE { Append(t, l) : t \in FilesOfLength(n - 1), l \in LineSet }

MarkdownFiles == UNION { FilesOfLength(n) : n \in 0..MaxLines }

\* str.strip()
RECURSIVE LStrip(_)
LStrip(t) == IF t # <<>> /\ Head(t) \in Whitespace THEN LStrip(Tail(t)) ELSE t

RECURSIVE RStrip(_)
RStrip(t) ==
    IF t # <<>> /\ t[Len(t)] \in Whitespace THEN RStrip(SubSeq(t, 1, Len(t) - 1)) ELSE t

Strip(t) == RStrip(LStrip(t))

\* "".join(lines), every line ending in its newline
RECURSIVE Join(_)
Join(ls) == IF ls = <<>> THEN <<>> ELSE Head(ls) \o <<"\n">> \o Join(Tail(ls))

\* chunking.py 65: stripped.startswith("#")
StartsWithHash(stripped) == stripped # <<>> /\ Head(stripped) = "#"

\* image_pattern.findall(line): the URI of every image reference, in order
ImageUri(token) == "u"

RECURSIVE FindImages(_)
FindImages(line) ==
    IF line = <<>> THEN <<>>
    ELSE (IF Head(line) \in ImageRefs THEN <<ImageUri(Head(line))>> ELSE <<>>)
         \o FindImages(Tail(line))

\* table_pattern.findall(line): leftmost opening tag, shortest span to a closing
\* tag, then on from behind it; tags match in either letter case
FirstIn(line, tags, from) ==
    LET hits == { i \in from..Len(line) : line[i] \in tags }
    IN  IF hits = {} THEN 0 ELSE CHOOSE i \in hits : \A j \in hits : i <= j

RECURSIVE FindTables(_)
FindTables(line) ==
    LET open == FirstIn(line, OpenTags, 1)
        close == IF open = 0 THEN 0 ELSE FirstIn(line, CloseTags, open + 1)
    IN  IF open = 0 \/ close = 0 THEN <<>>
        ELSE <<SubSeq(line, open, close)>> \o FindTables(SubSeq(line, close + 1, Len(line)))

ChunkData(heading, text, images, tables) ==
    [heading |-> heading, text |-> text, images |-> images, tables |-> tables]


\* chunking.py 47: the heading of the chunk made of a file without headings
PlaceholderHeading == <<"PDF Content">>

\* (mutant) every finished section is emitted
ShouldEmit_always(chunk_text, images, tables) == TRUE

\* chunking.py 69 and 101: if chunk_text or images or tables
ShouldEmit(chunk_text, images, tables) ==
    chunk_text # <<>> \/ images # <<>> \/ tables # <<>>

\* chunking.py 67-75 and 99-107: save the chunk collected under the heading
SaveChunk(st) ==
    IF st.heading = None THEN st.chunks
    ELSE LET chunk_text == Strip(Join(st.content_lines))
         IN  IF ShouldEmit(chunk_text, st.images, st.tables)
             THEN Append(st.chunks, ChunkData(Strip(st.heading), chunk_text, st.images, st.tables))
             ELSE st.chunks

\* the locals before the loop (chunking.py 26-30)
ChunkerStart ==
    [heading |-> None, content_lines |-> <<>>, images |-> <<>>, tables |-> <<>>,
     chunks |-> <<>>]

\* chunking.py 61-96: the body of the for loop
ChunkLine(st, line) ==
    IF StartsWithHash(Strip(line))
    THEN [heading |-> Strip(line), content_lines |-> <<>>, images |-> <<>>,
          tables |-> <<>>, chunks |-> SaveChunk(st)]
    ELSE [st EXCEPT !.images = @ \o FindImages(line),
                    !.tables = @ \o FindTables(line),
                    !.content_lines = IF st.heading # None THEN Append(@, line) ELSE @]

\* chunking.py 46: any(line.strip().startswith("#") for line in lines)
HasHeadings(ls) == \E i \in 1..Len(ls) : StartsWithHash(Strip(ls[i]))

\* chunking.py 48-59: the file has no heading
SingleChunk(ls) ==
    IF Strip(Join(ls)) # <<>>
    THEN <<ChunkData(PlaceholderHeading, Strip(Join(ls)), <<>>, <<>>)>>
    ELSE <<>>

\* chunk_markdown_with_headings on a file that exists and is read without error
RECURSIVE ChunkLoop(_, _)
ChunkLoop(st, ls) == IF ls = <<>> THEN st ELSE ChunkLoop(ChunkLine(st, Head(ls)), Tail(ls))

chunk_markdown_with_headings(ls) ==
    IF ~HasHeadings(ls) THEN SingleChunk(ls) ELSE SaveChunk(ChunkLoop(ChunkerStart, ls))

ChunkInit ==
    /\ lines \in MarkdownFiles
    /\ cpc = "start"
    /\ line_no = 0
    /\ has_headings = FALSE
    /\ chunker = ChunkerStart

\* chunking.py 46-59: no heading in the file; return the single chunk, or nothing
ChunkWithoutHeadings ==
    /\ cpc = "start"
    /\ ~HasHeadings(lines)
    /\ has_headings' = FALSE
    /\ chunker' = [chunker EXCEPT !.chunks = SingleChunk(lines)]
    /\ cpc' = "done"
    /\ UNCHANGED <<lines, line_no, notChunk>>

\* chunking.py 46, 61: there is a heading; enter the loop
ChunkEnterLoop ==
    /\ cpc = "start"
    /\ HasHeadings(lines)
    /\ has_headings' = TRUE
    /\ cpc' = "loop"
    /\ UNCHANGED <<lines, line_no, chunker, notChunk>>

\* chunking.py 61-96: one iteration of the loop
ChunkNextLine ==
    /\ cpc = "loop"
    /\ line_no < Len(lines)
    /\ line_no' = line_no + 1
    /\ chunker' = ChunkLine(chunker, lines[line_no + 1])
    /\ UNCHANGED <<lines, cpc, has_headings, notChunk>>

\* chunking.py 98-110: save the final chunk and return
ChunkReturn ==
    /\ cpc = "loop"
    /\ line_no = Len(lines)
    /\ chunker' = [chunker EXCEPT !.chunks = SaveChunk(chunker)]
    /\ cpc' = "done"
    /\ UNCHANGED <<lines, line_no, has_headings, notChunk>>

NextChunk ==
    \/ ChunkWithoutHeadings
    \/ ChunkEnterLoop
    \/ ChunkNextLine
    \/ ChunkReturn

InitChunk == UploadInit /\ ChunkInit /\ ExtractOff /\ SearchInit /\ RagOff /\ LlmOff /\ NamesOff

SpecChunk == InitChunk /\ [][NextChunk]_vars

----------------------------------------------------------------------------
(* Claims about the chunker, checked under SpecChunk *)

\* the lines the loop treats as headings
HeadingLines == { i \in 1..Len(lines) : StartsWithHash(Strip(lines[i])) }

\* the lines under heading line i, up to the next heading or the end of the file
SectionOf(i) ==
    { j \in (i + 1)..Len(lines) : \A h \in HeadingLines : h <= i \/ h > j }

\* nothing but blanks under heading line i: no body text, no image, no table
BareHeading(i) == \A j \in SectionOf(i) : Strip(lines[j]) = <<>>

\* C8: Chunk invariant. No chunk the chunker holds has an empty body and an
\* empty image list and an empty table list; and once the chunker has returned
\* for a file with headings, it has emitted as many chunks as there are
\* headings with something under them, so a heading followed by no content and
\* no media reference has produced no chunk.
C8_ChunkInvariant ==
    /\ cpc # "off" =>
          \A k \in 1..Len(chunker.chunks) :
              ~(/\ chunker.chunks[k].text = <<>>
                /\ chunker.chunks[k].images = <<>>
                /\ chunker.chunks[k].tables = <<>>)
    /\ (cpc = "done" /\ has_headings) =>
          Len(chunker.chunks) = Cardinality({ i \in HeadingLines : ~BareHeading(i) })

\* the chunker has returned for a file with a bare heading and a heading with text
C8_Witness ==
    /\ cpc = "done"
    /\ \E i \in HeadingLines : BareHeading(i)
    /\ \E i \in HeadingLines : ~BareHeading(i)
    /\ Len(chunker.chunks) = 1

\* The heading lines of spec section 4.2: one or more '#' characters at the
\* start of the line, followed by non-empty text.
RECURSIVE LeadingHashes(_)
LeadingHashes(line) ==
    IF line # <<>> /\ Head(line) = "#" THEN 1 + LeadingHashes(Tail(line)) ELSE 0

IsHeadingBoundary(line) ==
    /\ LeadingHashes(line) >= 1
    /\ Strip(SubSeq(line, LeadingHashes(line) + 1, Len(line))) # <<>>

\* C9: No-heading fallback. For every input that contains zero heading lines,
\* chunk_markdown_with_headings returns exactly one chunk, whose heading is the
\* fixed placeholder label and whose body equals the trimmed input.
C9_NoHeadingFallback ==
    (cpc = "done" /\ \A i \in 1..Len(lines) : ~IsHeadingBoundary(lines[i])) =>
        /\ Len(chunker.chunks) = 1
        /\ chunker.chunks[1].heading = PlaceholderHeading
        /\ chunker.chunks[1].text = Strip(Join(lines))

\* C10: Heading detection. The chunker treats a line as a heading boundary if
\* and only if it starts with one or more '#' characters followed by non-empty
\* text: it takes the no-heading fallback exactly when no line is of that
\* shape, and in the loop a line starts a new chunk exactly when it is.
C10_HeadingDetection ==
    /\ cpc \in {"loop", "done"} =>
          (has_headings <=> \E i \in 1..Len(lines) : IsHeadingBoundary(lines[i]))
    /\ (cpc = "loop" /\ line_no >= 1) =>
          ((chunker.heading = Strip(lines[line_no])) <=> IsHeadingBoundary(lines[line_no]))

\* the heading boundaries of the file, as section 4.2 of the spec defines them
BoundaryLines == { i \in 1..Len(lines) : IsHeadingBoundary(lines[i]) }

\* the lines between heading line i and the next heading (or the end of input)
BodyLines(i) ==
    LET later == { h \in BoundaryLines : h > i }
        stop == IF later = {} THEN Len(lines) + 1
                ELSE CHOOSE h \in later : \A g \in later : h <= g
    IN  [k \in 1..(stop - i - 1) |-> lines[i + k]]

\* the image references of a sequence of lines, in order of appearance
RECURSIVE ImagesIn(_)
ImagesIn(ls) == IF ls = <<>> THEN <<>> ELSE FindImages(Head(ls)) \o ImagesIn(Tail(ls))

\* the headings with a body or a media reference under them, in input order
RECURSIVE EmittingHeadings(_)
EmittingHeadings(i) ==
    IF i > Len(lines) THEN <<>>
    ELSE (IF i \in BoundaryLines
             /\ (Strip(Join(BodyLines(i))) # <<>> \/ ImagesIn(BodyLines(i)) # <<>>)
          THEN <<i>> ELSE <<>>)
         \o EmittingHeadings(i + 1)

\* C27: Chunk construction. For an input with at least one heading, the
\* emitted chunks are in the order of their headings in the input; each
\* chunk's body is exactly the concatenation of the non-heading lines between
\* its heading and the next heading (or end of input), trimmed; no line that
\* precedes the first heading, and no image or table reference found before
\* the first heading or under another heading, appears in it; a chunk's image
\* list holds the references of its own lines in order of appearance.
C27_ChunkConstruction ==
    (cpc = "done" /\ BoundaryLines # {}) =>
        LET hs == EmittingHeadings(1)
        IN  /\ Len(chunker.chunks) = Len(hs)
            /\ \A k \in 1..Len(hs) :
                  /\ chunker.chunks[k].heading = Strip(lines[hs[k]])
                  /\ chunker.chunks[k].text = Strip(Join(BodyLines(hs[k])))
                  /\ chunker.chunks[k].images = ImagesIn(BodyLines(hs[k]))
                  /\ \A t \in 1..Len(chunker.chunks[k].tables) :
                        \E j \in 1..Len(BodyLines(hs[k])) :
                            \E u \in 1..Len(FindTables(BodyLines(hs[k])[j])) :
                                FindTables(BodyLines(hs[k])[j])[u] = chunker.chunks[k].tables[t]

\* C28: Multi-line tables. A <table>...</table> fragment (tags in any letter
\* case) whose opening and closing tags lie on different lines within one
\* chunk's body is captured, once and whole, in that chunk's table list, just
\* as a fragment contained in a single line is: the table list of a chunk made
\* under a heading holds the fragments of its body, in order.
C28_MultiLineTables ==
    (cpc = "done" /\ has_headings) =>
        \A k \in 1..Len(chunker.chunks) :
            chunker.chunks[k].tables = FindTables(chunker.chunks[k].text)

----------------------------------------------------------------------------
(* services/pdf_processor.py: PDFProcessor *)

\* pdf_processor.py 21: retries: int = 3
DefaultRetries == 3

\* pdf_processor.py 90-97: len(possible_commands)
NumCommands == 6

\* (mutant) the same pause after every failed attempt
BackoffDelay_fixed(k) == 2

\* pdf_processor.py 40: time.sleep(2 ** attempt)
BackoffDelay(k) == 2 ^ k

\* What a MinerU command that exits with 0 can leave under the output
\* directory: no markdown file, an empty one, a blank one, or one with content.
PrimaryOutputs ==
    { <<>>,
      << <<>> >>,
      << << <<" ">> >> >>,
      << << <<"x">>, <<"x", "![a](u)">> >> >>,
      << << <<"#", " ", "x">>, <<"x">> >> >>,
      << << <<"#", " ", "x">>, <<"x">>, <<"#", " ", "x">>, <<"<table>", "x", "</table>">> >> >> }

\* page.get_text() of one page, as lines: no text, a line of text, a line that
\* begins with '#'
PageTexts == { <<>>, << <<"x">> >>, << <<"#", "x">> >> }

RECURSIVE PagesOfLength(_)
PagesOfLength(n) ==
    IF n = 0 THEN { <<>> }
    ELSE { Append(ps, t) : ps \in PagesOfLength(n - 1), t \in PageTexts }

\* the page texts of the PDFs PyMuPDF opens: 1..MaxPages pages
Documents == UNION { PagesOfLength(n) : n \in 1..MaxPages }

\* pdf_processor.py 187-191: full_text
RECURSIVE FullText(_)
FullText(pages) ==
    IF pages = <<>> THEN <<>>
    ELSE << <<>>, <<"x">> >> \o Head(pages) \o << <<>> >> \o FullText(Tail(pages))

\* pdf_processor.py 196-200: the lines of extracted_text.md
PymupdfMarkdown(pages) ==
    << <<"#", " ", "x">>, <<>>, <<"x">>, <<>> >> \o FullText(pages)

\* chunking.py 116-131: process_directory, the chunks of every markdown file
RECURSIVE process_directory(_)
process_directory(md_files) ==
    IF md_files = <<>> THEN <<>>
    ELSE chunk_markdown_with_headings(Head(md_files)) \o process_directory(Tail(md_files))

Raised(error) == [status |-> "raised", chunks |-> <<>>, error |-> error]
Returned(chunks) == [status |-> "returned", chunks |-> chunks, error |-> ""]

ExtractInit ==
    /\ epc = "idle"
    /\ caller = "none"
    /\ retries = 0
    /\ mineru = "none"
    /\ config_exists = FALSE
    /\ FreshCall

\* the variables a new call resets
ResetCall ==
    /\ attempt' = 0
    /\ dl_log' = <<>>
    /\ delays' = <<>>
    /\ config_written' = FALSE
    /\ cmd_no' = 0
    /\ success' = FALSE
    /\ fallback' = "untried"
    /\ output' = <<>>
    /\ result' = NoResult

\* pdf_processor.py 209-217, 73-79: process_pdf calls process_pdf_with_mineru,
\* which downloads the models if the models directory is missing or empty
CallProcessPdf(models_present) ==
    /\ epc = "idle"
    /\ caller' = "process_pdf"
    /\ retries' = DefaultRetries
    /\ mineru' = "running"
    /\ epc' = IF models_present THEN "config" ELSE "download"
    /\ ResetCall
    /\ UNCHANGED <<config_exists, notExtract>>

\* pdf_processor.py 21-25: download_models_with_retry(n) called on its own
CallDownload(n) ==
    /\ epc = "idle"
    /\ caller' = "download_models_with_retry"
    /\ retries' = n
    /\ mineru' = "none"
    /\ epc' = "download"
    /\ ResetCall
    /\ UNCHANGED <<config_exists, notExtract>>

\* pdf_processor.py 26-33: snapshot_download succeeds; return local_dir
DownloadSucceeds ==
    /\ epc = "download"
    /\ attempt < retries
    /\ dl_log' = Append(dl_log, "ok")
    /\ IF caller = "process_pdf"
       THEN epc' = "config" /\ UNCHANGED result
       ELSE epc' = "done" /\ result' = Returned(<<>>)
    /\ UNCHANGED <<caller, retries, attempt, delays, config_exists, config_written, cmd_no,
                   success, fallback, mineru, output, notExtract>>

\* pdf_processor.py 35-40: snapshot_download raises, attempts are left; sleep
DownloadFailsAndWaits ==
    /\ epc = "download"
    /\ attempt < retries
    /\ attempt # retries - 1
    /\ dl_log' = Append(dl_log, "failed")
    /\ delays' = Append(delays, BackoffDelay(attempt))
    /\ attempt' = attempt + 1
    /\ UNCHANGED <<epc, caller, retries, config_exists, config_written, cmd_no, success,
                   fallback, mineru, output, result, notExtract>>

\* pdf_processor.py 35-39: the last attempt raises; raise e. In process_pdf the
\* error leaves process_pdf_with_mineru (line 79 is outside its try) and is
\* re-raised by process_pdf (246-248).
DownloadFailsAndRaises ==
    /\ epc = "download"
    /\ attempt < retries
    /\ attempt = retries - 1
    /\ dl_log' = Append(dl_log, "failed")
    /\ result' = Raised("download")
    /\ mineru' = IF caller = "process_pdf" THEN "raised" ELSE mineru
    /\ epc' = "done"
    /\ UNCHANGED <<caller, retries, attempt, delays, config_exists, config_written, cmd_no,
                   success, fallback, output, notExtract>>

\* pdf_processor.py 25, 42: range(retries) is empty; return self.models_dir
DownloadWithoutAttempt ==
    /\ epc = "download"
    /\ attempt >= retries
    /\ epc' = "done"
    /\ result' = Returned(<<>>)
    /\ UNCHANGED <<caller, retries, attempt, dl_log, delays, config_exists, config_written,
                   cmd_no, success, fallback, mineru, output, notExtract>>

\* pdf_processor.py 44-71, 82: setup_mineru_config writes mineru-config.json
SetupConfig ==
    /\ epc = "config"
    /\ config_exists' = TRUE
    /\ config_written' = TRUE
    /\ epc' = "mkdir"
    /\ UNCHANGED <<caller, retries, attempt, dl_log, delays, cmd_no, success, fallback,
                   mineru, output, result, notExtract>>

\* pdf_processor.py 58-71: setup_mineru_config raises, before the file is
\* created (open) or after (dump, flush, fsync)
SetupConfigFails(created) ==
    /\ epc = "config"
    /\ config_exists' = (config_exists \/ created)
    /\ config_written' = FALSE
    /\ mineru' = "raised"
    /\ result' = Raised("config")
    /\ epc' = "done"
    /\ UNCHANGED <<caller, retries, attempt, dl_log, delays, cmd_no, success, fallback,
                   output, notExtract>>

\* pdf_processor.py 85-86: output_dir.mkdir
MakeOutputDir ==
    /\ epc = "mkdir"
    /\ epc' = "commands"
    /\ UNCHANGED <<caller, retries, attempt, dl_log, delays, config_exists, config_written,
                   cmd_no, success, fallback, mineru, output, result, notExtract>>

\* pdf_processor.py 86: mkdir raises; the try of line 88 is not entered yet
MakeOutputDirFails ==
    /\ epc = "mkdir"
    /\ mineru' = "raised"
    /\ result' = Raised("mkdir")
    /\ epc' = "done"
    /\ UNCHANGED <<caller, retries, attempt, dl_log, delays, config_exists, config_written,
                   cmd_no, success, fallback, output, notExtract>>

\* pdf_processor.py 102-147, 165-170: a command exits with 0; success, break,
\* return str(output_dir)
CommandSucceeds(md_files) ==
    /\ epc = "commands"
    /\ cmd_no < NumCommands
    /\ success' = TRUE
    /\ output' = md_files
    /\ epc' = "finally_return"
    /\ UNCHANGED <<caller, retries, attempt, dl_log, delays, config_exists, config_written,
                   cmd_no, fallback, mineru, result, notExtract>>

\* pdf_processor.py 148-163: the command exits with another code, is not found,
\* or raises; on to the next command
CommandFails ==
    /\ epc = "commands"
    /\ cmd_no < NumCommands
    /\ cmd_no' = cmd_no + 1
    /\ UNCHANGED <<epc, caller, retries, attempt, dl_log, delays, config_exists,
                   config_written, success, fallback, mineru, output, result, notExtract>>

\* pdf_processor.py 165-168, 176-203: every command failed; PyMuPDF writes
\* extracted_text.md
FallbackSucceeds(pages) ==
    /\ epc = "commands"
    /\ cmd_no = NumCommands
    /\ fallback' = "ok"
    /\ output' = Append(output, PymupdfMarkdown(pages))
    /\ epc' = "finally_return"
    /\ UNCHANGED <<caller, retries, attempt, dl_log, delays, config_exists, config_written,
                   cmd_no, success, mineru, result, notExtract>>

\* pdf_processor.py 165-168, 205-207: every command failed and PyMuPDF raises
FallbackFails ==
    /\ epc = "commands"
    /\ cmd_no = NumCommands
    /\ fallback' = "failed"
    /\ epc' = "finally_raise"
    /\ UNCHANGED <<caller, retries, attempt, dl_log, delays, config_exists, config_written,
                   cmd_no, success, mineru, output, result, notExtract>>

\* pdf_processor.py 171-174: finally, remove the config file; then the return
\* or the raise that was under way
Finally ==
    /\ epc \in {"finally_return", "finally_raise"}
    /\ config_exists' = FALSE
    /\ IF epc = "finally_return"
       THEN mineru' = "returned" /\ epc' = "glob" /\ UNCHANGED result
       ELSE mineru' = "raised" /\ epc' = "done" /\ result' = Raised("PyMuPDF")
    /\ UNCHANGED <<caller, retries, attempt, dl_log, delays, config_written, cmd_no,
                   success, fallback, output, notExtract>>

\* pdf_processor.py 219-248: process_pdf looks for markdown files and chunks them
GlobAndChunk ==
    /\ epc = "glob"
    /\ result' = IF output = <<>> THEN Raised("No markdown files generated by MinerU")
                 ELSE Returned(process_directory(output))
    /\ epc' = "done"
    /\ UNCHANGED <<caller, retries, attempt, dl_log, delays, config_exists, config_written,
                   cmd_no, success, fallback, mineru, output, notExtract>>

\* the caller has its answer; the next call can start
NextCall ==
    /\ epc = "done"
    /\ epc' = "idle"
    /\ UNCHANGED <<caller, retries, attempt, dl_log, delays, config_exists, config_written,
                   cmd_no, success, fallback, mineru, output, result, notExtract>>

NextExtract ==
    \/ \E models_present \in BOOLEAN : CallProcessPdf(models_present)
    \/ \E n \in 0..MaxRetries : CallDownload(n)
    \/ DownloadSucceeds
    \/ DownloadFailsAndWaits
    \/ DownloadFailsAndRaises
    \/ DownloadWithoutAttempt
    \/ SetupConfig
    \/ \E created \in BOOLEAN : SetupConfigFails(created)
    \/ MakeOutputDir
    \/ MakeOutputDirFails
    \/ \E md_files \in PrimaryOutputs : CommandSucceeds(md_files)
    \/ CommandFails
    \/ \E pages \in Documents : FallbackSucceeds(pages)
    \/ FallbackFails
    \/ Finally
    \/ GlobAndChunk
    \/ NextCall

InitExtract == UploadInit /\ ChunkerOff /\ ExtractInit /\ SearchInit /\ RagOff /\ LlmOff /\ NamesOff

SpecExtract == InitExtract /\ [][NextExtract]_vars

\* a step of the retry loop of download_models_with_retry
DownloadStep ==
    \/ DownloadSucceeds
    \/ DownloadFailsAndWaits
    \/ DownloadFailsAndRaises
    \/ DownloadWithoutAttempt

\* the loop, once entered, keeps running: snapshot_download ends, time.sleep ends
FairSpecExtract == SpecExtract /\ WF_vars(DownloadStep)

----------------------------------------------------------------------------
(* Claims about the extraction, checked under SpecExtract and FairSpecExtract *)

\* C4: Extraction fails only if every strategy fails. process_pdf_with_mineru
\* raises to its caller only after the page-by-page PyMuPDF fallback has been
\* attempted and has failed.
C4_RaisesOnlyAfterFallback ==
    mineru = "raised" => fallback = "failed"

\* the primary conversion finished and left no markdown file, or only blank ones
EmptyPrimaryOutput ==
    /\ success
    /\ \A k \in 1..Len(output) : Strip(Join(output[k])) = <<>>

\* C5: Extraction fallback on empty primary output. When the MinerU conversion
\* finishes but produces no markdown file or an empty result, process_pdf
\* falls back to the page-by-page extraction, and with the fallback's output
\* it returns exactly one chunk.
C5_FallbackOnEmptyOutput ==
    (epc = "done" /\ caller = "process_pdf" /\ EmptyPrimaryOutput) =>
        /\ fallback # "untried"
        /\ fallback = "ok" => (result.status = "returned" /\ Len(result.chunks) = 1)

\* C6: Guaranteed cleanup of the temporary configuration. Whenever a call of
\* process_pdf_with_mineru has written mineru-config.json, the file no longer
\* exists when the call has returned or raised.
C6_ConfigRemoved ==
    (mineru \in {"returned", "raised"} /\ config_written) => ~config_exists

Downloading == epc = "download"

DownloadRaised == result.status = "raised" /\ result.error = "download"

AllFailed == \A k \in 1..Len(dl_log) : dl_log[k] = "failed"

\* C7, in every state: at most `retries` attempts (3 when process_pdf calls);
\* no attempt follows a successful one; the k-th pause (k = 0, 1, ...) lasts 2^k
\* seconds; while the loop runs every failed attempt so far was followed by its
\* pause; the call raises exactly when all `retries` attempts have failed, and
\* then the last failure was followed by no pause; it has returned otherwise,
\* right after its first successful attempt.
RetryBehaviour ==
    /\ Len(dl_log) <= retries
    /\ caller = "process_pdf" => retries = 3
    /\ \A k \in 1..(Len(dl_log) - 1) : dl_log[k] = "failed"
    /\ \A k \in 1..Len(delays) : delays[k] = 2 ^ (k - 1)
    /\ Downloading => (AllFailed /\ Len(delays) = Len(dl_log) /\ attempt = Len(dl_log))
    /\ DownloadRaised <=> (retries >= 1 /\ Len(dl_log) = retries /\ AllFailed /\ ~Downloading)
    /\ DownloadRaised => Len(delays) = retries - 1
    /\ (~Downloading /\ ~DownloadRaised /\ dl_log # <<>>) =>
          (dl_log[Len(dl_log)] = "ok" /\ Len(delays) = Len(dl_log) - 1)

\* C7: Retry with exponential backoff. RetryBehaviour holds throughout, and
\* download_models_with_retry always terminates.
C7_RetryWithBackoff ==
    /\ []RetryBehaviour
    /\ Downloading ~> ~Downloading

\* process_pdf's download has failed three times, with pauses of 1 and 2 seconds
C7_Witness ==
    /\ caller = "process_pdf"
    /\ DownloadRaised
    /\ dl_log = <<"failed", "failed", "failed">>
    /\ delays = <<1, 2>>

----------------------------------------------------------------------------
(* pdf_rag_system/services/vector_service.py: VectorService *)

MaxDocs == 2          \* the store holds at most this many documents at a time
MaxStores == 3        \* store_document is called at most this many times

\* search_documents: limit: int = 5
default_limit == 5

\* A text is told apart by what TfidfVectorizer makes of it: "terms" has a word
\* of the vocabulary, "blank" is empty or holds stop words only.
Texts == {"terms", "blank"}
Devices == {"d1", "d2"}

\* the device_id argument of a search: "none" is None
Scopes == {"none"} \cup Devices
Limits == {1, default_limit}

\* cosine similarities, in hundredths
Scores == {0, 50, 100}

\* vector_service.py 128-144: _update_vectors; fit_transform raises on an empty
\* vocabulary, which the except logs, leaving self.vectors as it was
update_vectors(docs, ids, vecs, fit, rows) ==
    IF DOMAIN docs = {}
    THEN [vectors |-> None, fitted |-> fit, rows |-> <<>>, raised |-> FALSE]
    ELSE LET texts == [i \in 1..Len(ids) |-> docs[ids[i]].text]
         IN  IF \A i \in 1..Len(texts) : texts[i] = "blank"
             THEN [vectors |-> vecs, fitted |-> fit, rows |-> rows, raised |-> TRUE]
             ELSE [vectors |-> texts, fitted |-> TRUE, rows |-> ids, raised |-> FALSE]

\* what the caller of a VectorService method gets: the method returns `value`;
\* `backend_failed` tells whether fit_transform, transform or cosine_similarity
\* raised on the way (lines 143-144 and 88-90 log the exception and go on)
IndexCall(op, document_id, backend_failed, value) ==
    [op |-> op, document_id |-> document_id, backend_failed |-> backend_failed,
     outcome |-> "returned", value |-> value]

\* list.remove(x)
Remove(ids, x) == SelectSeq(ids, LAMBDA y : y # x)

\* what cosine_similarity(query_vector, self.vectors).flatten() can be: one score
\* a row, 0 for the row of a text without terms
SimilaritiesFor(vecs) ==
    { sims \in [1..Len(vecs) -> Scores] :
        \A i \in 1..Len(vecs) : vecs[i] = "blank" => sims[i] = 0 }

\* vector_service.py 73-75: the scope filter of the loop
InScope(doc, device_id) == device_id = "none" \/ doc.device_id = device_id

\* vector_service.py 68-82: the loop over document_ids, from index i on
RECURSIVE CollectResults(_, _, _, _, _)
CollectResults(docs, ids, sims, device_id, i) ==
    IF i > Len(ids) THEN <<>>
    ELSE IF ids[i] \in DOMAIN docs /\ InScope(docs[ids[i]], device_id)
    THEN << [id |-> ids[i], device_id |-> docs[ids[i]].device_id,
             similarity_score |-> sims[i]] >>
         \o CollectResults(docs, ids, sims, device_id, i + 1)
    ELSE CollectResults(docs, ids, sims, device_id, i + 1)

\* similarities[i] raises IndexError for a document in scope beyond the last row
IndexErrorIn(docs, ids, sims, device_id) ==
    \E i \in 1..Len(ids) :
        /\ ids[i] \in DOMAIN docs
        /\ InScope(docs[ids[i]], device_id)
        /\ i > Len(sims)

\* (mutant) a sort that puts a result before the results of equal score
SortPosition_unstable(sorted, r) ==
    Cardinality({ j \in 1..Len(sorted) : sorted[j].similarity_score > r.similarity_score })

\* list.sort(key=score, reverse=True) is stable: a result goes behind every
\* result placed earlier whose score is not lower
SortPosition(sorted, r) ==
    Cardinality({ j \in 1..Len(sorted) : sorted[j].similarity_score >= r.similarity_score })

RECURSIVE SortInto(_, _)
SortInto(sorted, rest) ==
    IF rest = <<>> THEN sorted
    ELSE LET k == SortPosition(sorted, Head(rest))
         IN  SortInto(SubSeq(sorted, 1, k) \o <<Head(rest)>> \o SubSeq(sorted, k + 1, Len(sorted)),
                      Tail(rest))

\* vector_service.py 85
SortBySimilarity(results) == SortInto(<<>>, results)

\* vector_service.py 86: results[:limit], limit >= 0
Truncate(results, limit) == SubSeq(results, 1, Min(limit, Len(results)))

\* vector_service.py 67-86: filter, then sort, then truncate
RankScoped(docs, ids, sims, device_id, limit) ==
    Truncate(SortBySimilarity(CollectResults(docs, ids, sims, device_id, 1)), limit)

\* (mutant) the early return of an empty store left out
search_documents_unguarded(docs, ids, vecs, fit, sims, device_id, limit) ==
    IF ~fit \/ vecs = None \/ IndexErrorIn(docs, ids, sims, device_id)
    THEN [raised |-> TRUE, results |-> <<>>]
    ELSE [raised |-> FALSE, results |-> RankScoped(docs, ids, sims, device_id, limit)]

\* vector_service.py 53-90: search_documents; every exception is logged and
\* answered with []
search_documents(docs, ids, vecs, fit, sims, device_id, limit) ==
    IF DOMAIN docs = {} THEN [raised |-> FALSE, results |-> <<>>]
    ELSE IF ~fit THEN [raised |-> TRUE, results |-> <<>>]          \* transform: NotFittedError
    ELSE IF vecs = None THEN [raised |-> TRUE, results |-> <<>>]   \* cosine_similarity(_, None)
    ELSE IF IndexErrorIn(docs, ids, sims, device_id)
    THEN [raised |-> TRUE, results |-> <<>>]
    ELSE [raised |-> FALSE, results |-> RankScoped(docs, ids, sims, device_id, limit)]

\* vector_service.py 23-51: store_document
StoreDocument(text, device_id) ==
    /\ next_id < MaxStores
    /\ Len(document_ids) < MaxDocs
    /\ LET document_id == next_id + 1
           docs == documents @@ (document_id :> [text |-> text, device_id |-> device_id])
           ids == Append(document_ids, document_id)
           upd == update_vectors(docs, ids, vectors, fitted, row_ids)
       IN  /\ documents' = docs
           /\ document_ids' = ids
           /\ vectors' = upd.vectors
           /\ fitted' = upd.fitted
           /\ row_ids' = upd.rows
           /\ next_id' = document_id
           /\ index_call' = IndexCall("store", document_id, upd.raised, "document_id")
    /\ found' = NoSearch
    /\ UNCHANGED notSearch

\* vector_service.py 112-126: delete_document, of a stored document and of an
\* id the store does not hold (an id it handed out before, or never)
DeleteDocument(document_id) ==
    /\ IF document_id \in DOMAIN documents
       THEN LET docs == [d \in DOMAIN documents \ {document_id} |-> documents[d]]
                ids == Remove(document_ids, document_id)
                upd == update_vectors(docs, ids, vectors, fitted, row_ids)
            IN  /\ documents' = docs
                /\ document_ids' = ids
                /\ vectors' = upd.vectors
                /\ fitted' = upd.fitted
                /\ row_ids' = upd.rows
                /\ index_call' = IndexCall("delete", document_id, upd.raised, "True")
       ELSE /\ index_call' = IndexCall("delete", document_id, FALSE, "False")
            /\ UNCHANGED <<documents, document_ids, vectors, fitted, row_ids>>
    /\ found' = NoSearch
    /\ UNCHANGED <<next_id, notSearch>>

\* vector_service.py 157-164: clear_all
ClearAll ==
    /\ documents' = <<>>
    /\ document_ids' = <<>>
    /\ vectors' = None
    /\ row_ids' = <<>>
    /\ index_call' = IndexCall("clear", 0, FALSE, "none")
    /\ found' = NoSearch
    /\ UNCHANGED <<fitted, next_id, notSearch>>

\* vector_service.py 53-90: a search_documents call; the similarities are what
\* the query gives against the rows of self.vectors
SearchDocuments(device_id, limit, sims) ==
    /\ LET out == search_documents(documents, document_ids, vectors, fitted, sims,
                                   device_id, limit)
       IN  /\ found' = [called |-> TRUE, device_id |-> device_id, limit |-> limit,
                        similarities |-> sims, raised |-> out.raised,
                        results |-> out.results]
           /\ index_call' = IndexCall("search", 0, out.raised, "results")
    /\ UNCHANGED <<documents, document_ids, vectors, fitted, next_id, row_ids, notSearch>>

\* the similarity vectors a search can meet in the current state
SimilaritiesNow ==
    IF DOMAIN documents # {} /\ fitted /\ vectors # None
    THEN SimilaritiesFor(vectors)
    ELSE {<<>>}

NextSearch ==
    \/ \E text \in Texts, device_id \in Devices : StoreDocument(text, device_id)
    \/ \E document_id \in 1..MaxStores : DeleteDocument(document_id)
    \/ ClearAll
    \/ \E device_id \in Scopes, limit \in Limits, sims \in SimilaritiesNow :
            SearchDocuments(device_id, limit, sims)

InitSearch == UploadInit /\ ChunkerOff /\ ExtractOff /\ SearchInit /\ RagOff /\ LlmOff /\ NamesOff

SpecSearch == InitSearch /\ [][NextSearch]_vars

----------------------------------------------------------------------------
(* Claims about VectorService, checked under SpecSearch *)

\* where a stored document stands in the insertion order
PositionOf(document_id) == CHOOSE k \in 1..Len(document_ids) : document_ids[k] = document_id

\* C12: Ranking order. search_documents returns at most `limit` results, in
\* descending order of similarity score, and two results of equal score stand
\* in the order in which their documents were inserted.
C12_RankingOrder ==
    found.called =>
        /\ Len(found.results) <= found.limit
        /\ \A i, j \in 1..Len(found.results) :
              i < j =>
                /\ found.results[i].similarity_score >= found.results[j].similarity_score
                /\ (found.results[i].similarity_score = found.results[j].similarity_score) =>
                      PositionOf(found.results[i].id) < PositionOf(found.results[j].id)

\* a search has returned two documents of the same positive score
C12_Witness ==
    /\ found.called
    /\ Len(found.results) = 2
    /\ found.results[1].similarity_score = 50
    /\ found.results[2].similarity_score = 50

\* the stored documents a search with scope tag `device_id` is about
Matching(device_id) ==
    { i \in 1..Len(document_ids) :
        device_id = "none" \/ documents[document_ids[i]].device_id = device_id }

\* C13: Scope filtering before ranking. A search with scope tag d returns only
\* documents tagged d, and its result is the top `limit` of the documents with
\* that tag: min(limit, number of matching documents) results, none of them
\* scored below a matching document that was left out. Without a scope tag
\* every stored document is a candidate.
C13_ScopeFilterBeforeRanking ==
    found.called =>
        /\ \A k \in 1..Len(found.results) :
              /\ found.results[k].id \in { document_ids[i] : i \in Matching(found.device_id) }
              /\ found.device_id # "none" => found.results[k].device_id = found.device_id
        /\ Len(found.results) = Min(found.limit, Cardinality(Matching(found.device_id)))
        /\ \A i \in Matching(found.device_id) :
              (\A k \in 1..Len(found.results) : found.results[k].id # document_ids[i]) =>
                  \A k \in 1..Len(found.results) :
                      i \in DOMAIN found.similarities
                          /\ found.similarities[i] <= found.results[k].similarity_score

\* C14: Empty store query. Whenever the store holds no document (at the start,
\* after clear_all, after every document was deleted), search_documents
\* returns the empty list and no exception is raised on the way.
C14_EmptyStoreQuery ==
    (found.called /\ DOMAIN documents = {}) =>
        /\ found.results = <<>>
        /\ ~found.raised

\* a search of a store that was filled and emptied again
C14_Witness ==
    /\ found.called
    /\ DOMAIN documents = {}
    /\ fitted
    /\ next_id > 0
    /\ found.device_id = "d1"
    /\ found.results = <<>>

\* C22: Index backend errors are not swallowed at the store/query boundary.
\* When the index backend fails during a store or a query (the index rebuild or
\* the query vectorization fails), the operation reports a failure to its
\* caller; it never returns a normal result (a document id, an empty or partial
\* result list) as if it had succeeded.
C22_IndexErrorsPropagate ==
    index_call.backend_failed => index_call.outcome = "raised"

\* the ids of a sequence of ids
IdsOf(ids) == { ids[i] : i \in 1..Len(ids) }

\* C23: Readers never observe a partially rebuilt index. In every state in
\* which a search can read the index (the methods run without suspending, so
\* that is every state between two calls), document_ids lists exactly the keys
\* of documents, each once and in insertion order, and the TF-IDF matrix has
\* exactly one row per entry of document_ids, computed from the texts now stored.
C23_IndexNeverPartial ==
    /\ IdsOf(document_ids) = DOMAIN documents
    /\ \A i, j \in 1..Len(document_ids) : i < j => document_ids[i] < document_ids[j]
    /\ IF DOMAIN documents = {}
       THEN vectors = None /\ row_ids = <<>>
       ELSE /\ vectors # None
            /\ row_ids = document_ids
            /\ vectors = [i \in 1..Len(document_ids) |-> documents[document_ids[i]].text]

\* C25: Deletion cascades. After delete_document(id) has returned True, no
\* later search_documents, get_document or list_documents result contains id,
\* and the index holds no vector row for it; delete_document on an id that is
\* not stored returns False and leaves documents, document_ids and the vectors
\* unchanged.
C25_DeletionCascades ==
    /\ [](\A id \in 1..MaxStores :
            (id <= next_id /\ id \notin DOMAIN documents) =>
                /\ id \notin IdsOf(document_ids)
                /\ id \notin IdsOf(row_ids)
                /\ \A k \in 1..Len(found.results) : found.results[k].id # id)
    /\ [](index_call.op = "delete" /\ index_call.value = "True" =>
            index_call.document_id \notin DOMAIN documents)
    /\ [][index_call'.op = "delete" =>
            /\ index_call'.value = "False" <=> index_call'.document_id \notin DOMAIN documents
            /\ index_call'.value = "False" =>
                  UNCHANGED <<documents, document_ids, vectors>>]_vars

----------------------------------------------------------------------------
(* pdf_rag_system/services/rag_service.py: RAGService.generate_answer *)

MaxContextDocs == 2   \* generate_answer is given at most this many documents

\* rag_service.py 48: the longest body that is not truncated
max_body_length == 2000

\* len(doc["text"]) of the documents the model retrieves
BodyLengths == {10, max_body_length, 3000}

ContextDocKinds == [length : BodyLengths, similarity_score : Scores]
ContextDocLists == UNION { [1..n -> ContextDocKinds] : n \in 0..MaxContextDocs }

\* The context text as the pieces it is made of: the first `chars` characters
\* of the body of the k-th document, the marker "...", the separator "\n\n".
BodyPiece(k, n) == [kind |-> "body", of |-> k, chars |-> n]
Marker(k) == [kind |-> "...", of |-> k, chars |-> 3]
Separator == [kind |-> "\\n\\n", of |-> 0, chars |-> 2]

\* (mutant) the marker left out
TruncateBody_unmarked(k, length) ==
    <<BodyPiece(k, IF length > max_body_length THEN max_body_length ELSE length)>>

\* rag_service.py 46-50: text[:2000] + "..." for a text of more than 2000 characters
TruncateBody(k, length) ==
    IF length > max_body_length
    THEN <<BodyPiece(k, max_body_length), Marker(k)>>
    ELSE <<BodyPiece(k, length)>>

\* rag_service.py 40-52: _extract_context_text, "\n\n".join(texts)
RECURSIVE JoinBodies(_, _)
JoinBodies(docs, k) ==
    IF k > Len(docs) THEN <<>>
    ELSE (IF k > 1 THEN <<Separator>> ELSE <<>>)
         \o TruncateBody(k, docs[k].length) \o JoinBodies(docs, k + 1)

extract_context_text(docs) == JoinBodies(docs, 1)

\* the words a query is made of; "Maintenance" is written with a capital
QueryWords == {"Maintenance", "service", "specification", "voltage", "error", "setup", "pump"}
Queries == { q \in SUBSET QueryWords : Cardinality(q) <= 2 }

\* str.lower() of a word
LowerWord(w) == IF w = "Maintenance" THEN "maintenance" ELSE w

\* `keyword in word` for the words and keywords of the model
Contains(w, keyword) == w = keyword \/ (w = "specification" /\ keyword = "spec")

\* `keyword in query.lower()`
OccursIn(keyword, query) == \E w \in query : Contains(LowerWord(w), keyword)

\* rag_service.py 62-68: the keywords the dispatch tests, per handler
DispatchKeywords(category) ==
    CASE category = "maintenance" -> {"maintenance", "schedule"}
      [] category = "specification" -> {"specification", "spec"}
      [] category = "troubleshooting" -> {"troubleshoot", "error"}
      [] category = "installation" -> {"installation", "setup"}

\* rag_service.py 78, 98, 118, 138: the keyword list of each handler
Vocabulary(category) ==
    CASE category = "maintenance" ->
            {"maintenance", "schedule", "service", "inspection", "cleaning", "replacement"}
      [] category = "specification" ->
            {"specification", "spec", "parameter", "dimension", "capacity", "voltage",
             "current", "temperature"}
      [] category = "troubleshooting" ->
            {"troubleshoot", "error", "problem", "issue", "fault", "diagnostic", "solution"}
      [] category = "installation" ->
            {"installation", "setup", "mount", "connect", "wire", "install", "assembly"}

\* the order of the if/elif chain
Categories == <<"maintenance", "specification", "troubleshooting", "installation">>

\* rag_service.py 54-71: _generate_contextual_answer, from the i-th branch on
RECURSIVE Dispatch(_, _)
Dispatch(query, i) ==
    IF i > Len(Categories) THEN "general"
    ELSE IF \E keyword \in DispatchKeywords(Categories[i]) : OccursIn(keyword, query)
    THEN Categories[i]
    ELSE Dispatch(query, i + 1)

generate_contextual_answer(query) == Dispatch(query, 1)

RECURSIVE SumScores(_, _)
SumScores(docs, k) ==
    IF k > Len(docs) THEN 0 ELSE docs[k].similarity_score + SumScores(docs, k + 1)

\* (mutant) the average scaled by 2 and not capped
calculate_confidence_uncapped(docs) ==
    IF docs = <<>> THEN [num |-> 0, den |-> 1]
    ELSE [num |-> 2 * SumScores(docs, 1), den |-> Len(docs)]

\* rag_service.py 182-196: min(avg_score * 2, 1.0), as the fraction num/den of
\* hundredths (1.0 is 100)
calculate_confidence(docs) ==
    IF docs = <<>> THEN [num |-> 0, den |-> 1]
    ELSE [num |-> Min(2 * SumScores(docs, 1), 100 * Len(docs)), den |-> Len(docs)]

RagInit == rpc = "idle" /\ NoAnswer

\* rag_service.py 10-14: generate_answer is called
CallGenerateAnswer(query, docs) ==
    /\ rpc = "idle"
    /\ rpc' = "context"
    /\ rag_query' = query
    /\ context_docs' = docs
    /\ UNCHANGED <<context_text, handler, confidence, notRag>>

\* rag_service.py 17-18: no document was retrieved
AnswerWithoutContext ==
    /\ rpc = "context"
    /\ context_docs = <<>>
    /\ rpc' = "done"
    /\ handler' = "no_context"
    /\ confidence' = [num |-> 0, den |-> 1]
    /\ UNCHANGED <<rag_query, context_docs, context_text, notRag>>

\* rag_service.py 21
ExtractContextText ==
    /\ rpc = "context"
    /\ context_docs # <<>>
    /\ rpc' = "answer"
    /\ context_text' = extract_context_text(context_docs)
    /\ UNCHANGED <<rag_query, context_docs, handler, confidence, notRag>>

\* rag_service.py 24
GenerateContextualAnswer ==
    /\ rpc = "answer"
    /\ rpc' = "confidence"
    /\ handler' = generate_contextual_answer(rag_query)
    /\ UNCHANGED <<rag_query, context_docs, context_text, confidence, notRag>>

\* rag_service.py 30-34
CalculateConfidence ==
    /\ rpc = "confidence"
    /\ rpc' = "done"
    /\ confidence' = calculate_confidence(context_docs)
    /\ UNCHANGED <<rag_query, context_docs, context_text, handler, notRag>>

NextRag ==
    \/ rpc = "idle" /\ \E query \in Queries, docs \in ContextDocLists :
            CallGenerateAnswer(query, docs)
    \/ AnswerWithoutContext
    \/ ExtractContextText
    \/ GenerateContextualAnswer
    \/ CalculateConfidence

InitRag == UploadInit /\ ChunkerOff /\ ExtractOff /\ SearchInit /\ RagInit /\ LlmOff /\ NamesOff

SpecRag == InitRag /\ [][NextRag]_vars

----------------------------------------------------------------------------
(* Claims about RAGService, checked under SpecRag *)

\* C15: Confidence bounds. For a non-empty list of retrieved chunks with scores
\* in [0,1], _calculate_confidence returns the average score times 2, capped at
\* 1, and the value lies in [0,1] (here: between 0 and 100 hundredths).
C15_ConfidenceBounds ==
    (rpc = "done" /\ context_docs # <<>>) =>
        LET total == SumScores(context_docs, 1)
            n == Len(context_docs)
        IN  /\ confidence.den > 0
            /\ 0 <= confidence.num
            /\ confidence.num <= 100 * confidence.den
            /\ IF 2 * total >= 100 * n
               THEN confidence.num = 100 * confidence.den
               ELSE confidence.num * n = 2 * total * confidence.den

\* the confidence of two chunks scored 1.0 and 0.5 has been computed: 1.5 capped to 1
C15_Witness ==
    /\ rpc = "done"
    /\ Len(context_docs) = 2
    /\ context_docs[1].similarity_score = 100
    /\ context_docs[2].similarity_score = 50
    /\ confidence.num = 100 * confidence.den

\* the context text has been built
ContextBuilt == rpc \in {"answer", "confidence", "done"} /\ handler # "no_context"

\* the body pieces of the context text, in the order they stand in
BodiesIn(text) == SelectSeq(text, LAMBDA piece : piece.kind = "body")

\* C16: Context truncation. In the synthesized context every body longer than
\* 2000 characters appears as its first 2000 characters followed by the
\* truncation marker, every body of at most 2000 characters appears whole and
\* without marker, and the bodies stand in retrieval order with a blank line
\* between neighbours and nothing else.
C16_ContextTruncation ==
    ContextBuilt =>
        /\ Len(BodiesIn(context_text)) = Len(context_docs)
        /\ \A k \in 1..Len(context_docs) :
              /\ BodiesIn(context_text)[k].of = k
              /\ BodiesIn(context_text)[k].chars =
                    IF context_docs[k].length > 2000 THEN 2000 ELSE context_docs[k].length
        /\ context_text[1].kind = "body"
        /\ \A i \in 1..Len(context_text) :
              LET piece == context_text[i]
                  marked == i < Len(context_text) /\ context_text[i + 1].kind = "..."
              IN  /\ piece.kind = "body" =>
                        /\ marked <=> context_docs[piece.of].length > 2000
                        /\ piece.of > 1 =>
                              /\ context_text[i - 1].kind = "\\n\\n"
                              /\ context_text[i - 2].kind \in {"body", "..."}
                  /\ piece.kind = "..." => context_text[i - 1].kind = "body"
                  /\ piece.kind = "\\n\\n" =>
                        i < Len(context_text) /\ context_text[i + 1].kind = "body"

\* a body of 3000 characters, truncated, stands before a short one
C16_Witness ==
    /\ rpc = "done"
    /\ Len(context_docs) = 2
    /\ context_docs[1].length = 3000
    /\ context_docs[2].length = 10
    /\ context_text = <<BodyPiece(1, 2000), Marker(1), Separator, BodyPiece(2, 10)>>

\* a keyword of the category's full vocabulary occurs in the query
VocabularyHit(query, i) == \E keyword \in Vocabulary(Categories[i]) : OccursIn(keyword, query)

\* C17: Intent classification. The query goes to the handler of the first
\* category, in the order maintenance, specification, troubleshooting,
\* installation, whose full vocabulary has a keyword occurring in the query;
\* the generic handler is used only when no keyword of the four occurs.
C17_IntentClassification ==
    (rpc \in {"confidence", "done"} /\ handler # "no_context") =>
        IF \E i \in 1..Len(Categories) : VocabularyHit(rag_query, i)
        THEN \E i \in 1..Len(Categories) :
                /\ VocabularyHit(rag_query, i)
                /\ \A j \in 1..(i - 1) : ~VocabularyHit(rag_query, j)
                /\ handler = Categories[i]
        ELSE handler = "general"

----------------------------------------------------------------------------
(* services/llm_service.py: LLMService.generate_rules,                      *)
(* generate_maintenance_schedule, generate_safety_information              *)

MaxResponseLines == 2   \* a response has at most this many lines

\* A line of a response, by the words it holds (the parsers only test which
\* words occur in a line) and whether blanks surround it.
ResponseLines ==
    { [words |-> {}, padded |-> FALSE],
      [words |-> {"check", "oil"}, padded |-> FALSE],
      [words |-> {"Daily", "oil"}, padded |-> TRUE],
      [words |-> {"weekly", "monthly"}, padded |-> FALSE],
      [words |-> {"if", "then"}, padded |-> FALSE],
      [words |-> {"Warning", "annually"}, padded |-> TRUE],
      [words |-> {"safety", "procedure"}, padded |-> FALSE] }

\* What json.loads and the record constructor make of the bracketed part of a
\* response (content[content.find('['):content.rfind(']') + 1]):
\*   "no_json"       no bracket pair: the slice is empty or no JSON text
\*   "invalid_json"  brackets around text that is not JSON
\*   "wrong_fields"  a JSON list of objects that lack a required field
\*   "not_objects"   a JSON list with an element that is not an object, as [1]
\*   "well_formed"   a JSON list of objects of the expected shape
Shapes == {"no_json", "invalid_json", "wrong_fields", "not_objects", "well_formed"}

\* text.split('\n') gives at least one line
Responses ==
    UNION { [shape : Shapes, lines : [1..n -> ResponseLines]] : n \in 1..MaxResponseLines }

Operations == {"rules", "maintenance", "safety"}

\* str.lower() of a word of a line
LowerToken(w) == CASE w = "Daily" -> "daily" [] w = "Warning" -> "warning" [] OTHER -> w

\* line.lower(), as the words that occur in it
LineLower(line) == { LowerToken(w) : w \in line.words }

\* line.strip()
StripLine(line) == [line EXCEPT !.padded = FALSE]

\* llm_service.py 123-128: the exception the JSON extraction ends in, "" for none
ExtractJson(shape) ==
    CASE shape = "no_json" -> "JSONDecodeError"
      [] shape = "invalid_json" -> "JSONDecodeError"
      [] shape = "wrong_fields" -> "ValidationError"      \* Rule(**rule): a field is missing
      [] shape = "not_objects" -> "TypeError"             \* Rule(**1): not a mapping
      [] shape = "well_formed" -> ""

\* llm_service.py 133, 205, 275: except (json.JSONDecodeError, ValueError);
\* JSONDecodeError and pydantic's ValidationError are ValueErrors
CaughtByFallback(exception) == exception \in {"JSONDecodeError", "ValidationError"}

Item(source, text, label) == [source |-> source, text |-> text, label |-> label]

\* llm_service.py 128, 200, 270: one record per object of the JSON list
JsonItems(text_lines) == [k \in 1..Len(text_lines) |-> Item("json", text_lines[k], "json")]

\* llm_service.py 283-297: _parse_rules_from_text
RECURSIVE parse_rules_from_text(_)
parse_rules_from_text(text_lines) ==
    IF text_lines = <<>> THEN <<>>
    ELSE LET line == Head(text_lines)
         IN  (IF "if" \in LineLower(line)
                 /\ ("then" \in LineLower(line) \/ ">" \in line.words \/ "<" \in line.words)
              THEN <<Item("text", StripLine(line), "Monitor and alert")>>
              ELSE <<>>)
             \o parse_rules_from_text(Tail(text_lines))

\* llm_service.py 304
frequencies == <<"daily", "weekly", "monthly", "annually">>

\* (mutant) the loop over frequencies without its break: a task per frequency word
TasksOfLine_no_break(line) ==
    LET hit(i) == IF frequencies[i] \in LineLower(line)
                  THEN <<Item("text", StripLine(line), frequencies[i])>> ELSE <<>>
    IN  hit(1) \o hit(2) \o hit(3) \o hit(4)

\* llm_service.py 307-316: the first frequency of the list that the line
\* holds makes one task, then break
TasksOfLine(line) ==
    LET found_at == { i \in 1..Len(frequencies) : frequencies[i] \in LineLower(line) }
    IN  IF found_at = {} THEN <<>>
        ELSE <<Item("text", StripLine(line),
                    frequencies[CHOOSE i \in found_at : \A j \in found_at : i <= j])>>

\* llm_service.py 299-318: _parse_maintenance_from_text
RECURSIVE parse_maintenance_from_text(_)
parse_maintenance_from_text(text_lines) ==
    IF text_lines = <<>> THEN <<>>
    ELSE TasksOfLine(Head(text_lines)) \o parse_maintenance_from_text(Tail(text_lines))

\* llm_service.py 327
safety_words == {"warning", "caution", "danger", "safety", "hazard"}

\* llm_service.py 320-342: _parse_safety_from_text
RECURSIVE parse_safety_from_text(_)
parse_safety_from_text(text_lines) ==
    IF text_lines = <<>> THEN <<>>
    ELSE LET line == Head(text_lines)
             safety_type == IF "warning" \in LineLower(line) THEN "warning"
                            ELSE IF "procedure" \in LineLower(line) THEN "procedure"
                            ELSE "warning"
         IN  (IF LineLower(line) \cap safety_words # {}
              THEN <<Item("text", StripLine(line), safety_type)>>
              ELSE <<>>)
             \o parse_safety_from_text(Tail(text_lines))

\* the fallback parser of each method
FallbackParse(op, text_lines) ==
    CASE op = "rules" -> parse_rules_from_text(text_lines)
      [] op = "maintenance" -> parse_maintenance_from_text(text_lines)
      [] op = "safety" -> parse_safety_from_text(text_lines)

\* llm_service.py 118-140, 191-211, 261-281: from the response to the return
\* or the re-raise of the outer except
HandleResponse(op, response) ==
    LET exception == ExtractJson(response.shape)
    IN  IF exception = ""
        THEN [outcome |-> "parsed", error |-> "", items |-> JsonItems(response.lines)]
        ELSE IF CaughtByFallback(exception)
        THEN [outcome |-> "fallback", error |-> "", items |-> FallbackParse(op, response.lines)]
        ELSE [outcome |-> "raised", error |-> exception, items |-> <<>>]

LlmInit == lpc = "idle" /\ NoLlmCall

\* llm_service.py 68-116, 142-189, 213-259: the prompt is sent
CallGenerate(op) ==
    /\ lpc = "idle"
    /\ lpc' = "awaiting"
    /\ llm_op' = op
    /\ UNCHANGED <<content, llm_result, notLlm>>

\* llm_service.py 108-118: the completion arrives
ResponseArrives(response) ==
    /\ lpc = "awaiting"
    /\ lpc' = "responded"
    /\ content' = response
    /\ UNCHANGED <<llm_op, llm_result, notLlm>>

\* llm_service.py 138-140: the API call raises; the outer except re-raises
CompletionFails ==
    /\ lpc = "awaiting"
    /\ lpc' = "done"
    /\ llm_result' = [outcome |-> "raised", error |-> "APIError", items |-> <<>>]
    /\ UNCHANGED <<llm_op, content, notLlm>>

\* llm_service.py 120-140: the response is parsed
ParseResponse ==
    /\ lpc = "responded"
    /\ lpc' = "done"
    /\ llm_result' = HandleResponse(llm_op, content)
    /\ UNCHANGED <<llm_op, content, notLlm>>

NextLlm ==
    \/ \E op \in Operations : CallGenerate(op)
    \/ lpc = "awaiting" /\ \E response \in Responses : ResponseArrives(response)
    \/ CompletionFails
    \/ ParseResponse

InitLlm == UploadInit /\ ChunkerOff /\ ExtractOff /\ SearchInit /\ RagOff /\ LlmInit /\ NamesOff

SpecLlm == InitLlm /\ [][NextLlm]_vars

----------------------------------------------------------------------------
(* Claims about LLMService, checked under SpecLlm *)

\* C18: Malformed model output is never a hard failure. For every response
\* text that is not a well-formed JSON list of records of the expected shape
\* (no JSON, invalid JSON, JSON of another shape), the method returns what its
\* line-based fallback parser makes of the text and does not raise.
C18_MalformedOutputRecovered ==
    (lpc = "done" /\ content.shape \notin {"none", "well_formed"}) =>
        /\ llm_result.outcome = "fallback"
        /\ llm_result.items = FallbackParse(llm_op, content.lines)

\* the response holds no JSON list: the fallback parser is what answers
NonJson == content.shape \in {"no_json", "invalid_json"}

\* the lines of the response that hold a frequency word
FrequencyLines ==
    { i \in 1..Len(content.lines) :
        \E w \in {"daily", "weekly", "monthly", "annually"} : w \in LineLower(content.lines[i]) }

\* C19: Maintenance fallback parser. For a non-JSON response
\* generate_maintenance_schedule returns one task for each line that holds a
\* frequency word, in line order, and none for any other line; the task's
\* frequency is the first of daily, weekly, monthly, annually that its line
\* holds and its text is the trimmed line.
C19_MaintenanceFallback ==
    (lpc = "done" /\ llm_op = "maintenance" /\ NonJson) =>
        /\ llm_result.outcome = "fallback"
        /\ Len(llm_result.items) = Cardinality(FrequencyLines)
        /\ \A k \in 1..Len(llm_result.items) :
              \E i \in FrequencyLines :
                  /\ Cardinality({ j \in FrequencyLines : j < i }) = k - 1
                  /\ llm_result.items[k].text.words = content.lines[i].words
                  /\ ~llm_result.items[k].text.padded
                  /\ llm_result.items[k].label \in LineLower(content.lines[i])
                  /\ llm_result.items[k].label =
                        (IF "daily" \in LineLower(content.lines[i]) THEN "daily"
                         ELSE IF "weekly" \in LineLower(content.lines[i]) THEN "weekly"
                         ELSE IF "monthly" \in LineLower(content.lines[i]) THEN "monthly"
                         ELSE "annually")

\* a response of two lines, " Daily oil " and "weekly monthly", has been parsed
C19_Witness ==
    /\ lpc = "done"
    /\ llm_op = "maintenance"
    /\ content.shape = "no_json"
    /\ Len(content.lines) = 2
    /\ content.lines[1].words = {"Daily", "oil"}
    /\ content.lines[2].words = {"weekly", "monthly"}
    /\ Len(llm_result.items) = 2
    /\ llm_result.items[1].label = "daily"
    /\ llm_result.items[2].label = "weekly"

====
